---- MODULE Spec2Model ----
(***************************************************************************)
(* A model of the AI-response pipeline of the health tracker:              *)
(*   - the server actions of src/actions/ai-actions.ts (generateAIInsights,*)
(*     generatePatternVisualizations, extractJSON),                        *)
(*   - the insights view of src/components/ai-insights.tsx,                *)
(*   - the patterns view of src/components/ai-pattern-visualization.tsx.   *)
(*                                                                         *)
(* A text is a sequence of one-character strings.  A JSON value is a      *)
(* record [t, n, s, kids]: t is the kind ("num", "str", "true", "false",  *)
(* "null", "arr", "obj", "member", "tpl", "undefined"), n a number, s a   *)
(* text and kids the sequence of children.                                *)
(***************************************************************************)
EXTENDS Integers, Sequences, FiniteSets, TLC

(***************************************************************************)
(* Bounds of the model.                                                    *)
(***************************************************************************)
\* longest text of the exhaustive part of the extractor's inputs
MaxLen == 3
\* longest leading / trailing prose around a fenced block
MaxProse == 1
\* largest number of symptom entries held by the tracker
MaxSymptoms == 11
\* largest number of medications held by the tracker
MaxMeds == 1
\* numbers of a response are kept exactly up to this value and saturate at it
MaxNumber == 1000000
\* largest number of generation requests of the patterns view in flight
MaxInFlight == 2
\* longest summary list generateFallbackInsights is applied to on its own
MaxSummary == 6

(***************************************************************************)
(* Characters.                                                             *)
(***************************************************************************)
WS == {" ", "\n"}

DIGITS == {"0", "1", "2", "3", "4", "5", "6", "7", "8", "9"}

DigitVal(c) ==
  CASE c = "0" -> 0 [] c = "1" -> 1 [] c = "2" -> 2 [] c = "3" -> 3
    [] c = "4" -> 4 [] c = "5" -> 5 [] c = "6" -> 6 [] c = "7" -> 7
    [] c = "8" -> 8 [] c = "9" -> 9

DigitChar(d) ==
  CASE d = 0 -> "0" [] d = 1 -> "1" [] d = 2 -> "2" [] d = 3 -> "3"
    [] d = 4 -> "4" [] d = 5 -> "5" [] d = 6 -> "6" [] d = 7 -> "7"
    [] d = 8 -> "8" [] d = 9 -> "9"

MinOf(S) == CHOOSE x \in S : \A y \in S : x <= y

MaxOf(S) == CHOOSE x \in S : \A y \in S : y <= x

Least(a, b) == IF a <= b THEN a ELSE b

\* v * 10^k, saturating at MaxNumber
RECURSIVE ScaleBy10(_, _)
ScaleBy10(v, k) ==
  IF k = 0 \/ v = 0 \/ v >= MaxNumber THEN Least(v, MaxNumber)
  ELSE ScaleBy10(Least(10 * v, MaxNumber), k - 1)

\* all sequences over S of length at most n
RECURSIVE SeqsUpTo(_, _)
SeqsUpTo(S, n) ==
  IF n = 0 THEN {<<>>}
  ELSE LET shorter == SeqsUpTo(S, n - 1)
       IN  shorter \cup {Append(q, c) : q \in shorter, c \in S}

(***************************************************************************)
(* JSON values.                                                            *)
(***************************************************************************)
Val(t, n, s, kids) == [t |-> t, n |-> n, s |-> s, kids |-> kids]

Num(n) == Val("num", n, <<>>, <<>>)

Str(s) == Val("str", 0, s, <<>>)

Lit(t) == Val(t, 0, <<>>, <<>>)

Arr(kids) == Val("arr", 0, <<>>, kids)

Obj(members) == Val("obj", 0, <<>>, members)

Member(key, v) == Val("member", 0, key, <<v>>)

Undefined == Lit("undefined")

\* a template string with interpolated values, named by its fixed text
Tpl(name, args) == Val("tpl", 0, <<name>>, args)

(***************************************************************************)
(* String.prototype.trim, indexOf, lastIndexOf, substring (0-based in the  *)
(* source, 1-based here; 0 stands for the source's -1).                    *)
(***************************************************************************)
\* the first position from i on that holds no white space (Len(s) + 1 if none)
RECURSIVE SkipWs(_, _)
SkipWs(s, i) == IF i > Len(s) \/ s[i] \notin WS THEN i ELSE SkipWs(s, i + 1)

\* the first position from i on that holds c (0 if none)
Find(s, i, c) ==
  LET hits == {j \in i..Len(s) : s[j] = c}
  IN  IF hits = {} THEN 0 ELSE MinOf(hits)

\* the last position that holds c (0 if none)
FindLast(s, c) ==
  LET hits == {j \in 1..Len(s) : s[j] = c}
  IN  IF hits = {} THEN 0 ELSE MaxOf(hits)

\* the last position up to i that holds no white space (0 if none)
RECURSIVE SkipWsBack(_, _)
SkipWsBack(s, i) == IF i < 1 \/ s[i] \notin WS THEN i ELSE SkipWsBack(s, i - 1)

Trim(s) ==
  LET first == SkipWs(s, 1)
  IN  IF first > Len(s) THEN <<>> ELSE SubSeq(s, first, SkipWsBack(s, Len(s)))

IndexOf(s, c) == Find(s, 1, c)

LastIndexOf(s, c) == FindLast(s, c)

\* the positions at which lit occurs in s
Occurrences(s, lit) ==
  {j \in 1..(Len(s) - Len(lit) + 1) : SubSeq(s, j, j + Len(lit) - 1) = lit}

StartsWithAt(s, i, lit) ==
  /\ i + Len(lit) - 1 <= Len(s)
  /\ SubSeq(s, i, i + Len(lit) - 1) = lit

(***************************************************************************)
(* JSON.parse, by recursive descent over the characters.  A result is     *)
(* [ok, pos, val]: pos is the position after the value.  The grammar is   *)
(* RFC 8259 over the characters of the model: no sign, fraction or escape *)
(* character occurs in it.  A number is held as an integer that saturates *)
(* at MaxNumber.                                                           *)
(***************************************************************************)
ParseFail == [ok |-> FALSE, pos |-> 0, val |-> Undefined]

ParseOk(pos, v) == [ok |-> TRUE, pos |-> pos, val |-> v]

\* end of the maximal run of digits starting at i (i itself when none)
RECURSIVE DigitsEnd(_, _)
DigitsEnd(s, i) ==
  IF i > Len(s) \/ s[i] \notin DIGITS THEN i ELSE DigitsEnd(s, i + 1)

RECURSIVE DigitsValue(_, _, _)
DigitsValue(s, i, j) ==
  IF j <= i THEN 0
  ELSE Least(10 * DigitsValue(s, i, j - 1) + DigitVal(s[j - 1]), MaxNumber)

ParseNumber(s, i) ==
  LET intEnd == IF s[i] = "0" THEN i + 1 ELSE DigitsEnd(s, i)
      mant   == DigitsValue(s, i, intEnd)
      hasExp == /\ intEnd + 1 <= Len(s)
                /\ s[intEnd] \in {"e", "E"}
                /\ s[intEnd + 1] \in DIGITS
      expEnd == DigitsEnd(s, intEnd + 1)
  IN  IF hasExp
      THEN ParseOk(expEnd, Num(ScaleBy10(mant, DigitsValue(s, intEnd + 1, expEnd))))
      ELSE ParseOk(intEnd, Num(mant))

ParseString(s, i) ==
  LET q  == Find(s, i + 1, "\"")
      nl == Find(s, i + 1, "\n")
  IN  IF q = 0 \/ (nl # 0 /\ nl < q) THEN ParseFail
      ELSE ParseOk(q + 1, Str(SubSeq(s, i + 1, q - 1)))

ParseLiteral(s, i, word, t) ==
  IF StartsWithAt(s, i, word) THEN ParseOk(i + Len(word), Lit(t)) ELSE ParseFail

RECURSIVE ParseValue(_, _), ParseElements(_, _, _), ParseMembers(_, _, _)
ParseValue(s, i) ==
  IF i > Len(s) THEN ParseFail
  ELSE LET c == s[i]
       IN  CASE c = "[" ->
                  LET j == SkipWs(s, i + 1)
                  IN  IF j <= Len(s) /\ s[j] = "]" THEN ParseOk(j + 1, Arr(<<>>))
                      ELSE ParseElements(s, j, <<>>)
             [] c = "{" ->
                  LET j == SkipWs(s, i + 1)
                  IN  IF j <= Len(s) /\ s[j] = "}" THEN ParseOk(j + 1, Obj(<<>>))
                      ELSE ParseMembers(s, j, <<>>)
             [] c = "\"" -> ParseString(s, i)
             [] c \in DIGITS -> ParseNumber(s, i)
             [] c = "t" -> ParseLiteral(s, i, <<"t", "r", "u", "e">>, "true")
             [] c = "f" -> ParseLiteral(s, i, <<"f", "a", "l", "s", "e">>, "false")
             [] c = "n" -> ParseLiteral(s, i, <<"n", "u", "l", "l">>, "null")
             [] OTHER -> ParseFail

\* the elements of an array from position i on, acc the elements read so far
ParseElements(s, i, acc) ==
  LET v == ParseValue(s, i)
  IN  IF ~v.ok THEN ParseFail
      ELSE LET k == SkipWs(s, v.pos)
           IN  IF k > Len(s) THEN ParseFail
               ELSE IF s[k] = "]" THEN ParseOk(k + 1, Arr(Append(acc, v.val)))
               ELSE IF s[k] = ","
                    THEN ParseElements(s, SkipWs(s, k + 1), Append(acc, v.val))
               ELSE ParseFail

\* the members of an object from position i on, acc the members read so far
ParseMembers(s, i, acc) ==
  IF i > Len(s) \/ s[i] # "\"" THEN ParseFail
  ELSE LET key == ParseString(s, i)
       IN  IF ~key.ok THEN ParseFail
           ELSE LET c == SkipWs(s, key.pos)
                IN  IF c > Len(s) \/ s[c] # ":" THEN ParseFail
                    ELSE LET v == ParseValue(s, SkipWs(s, c + 1))
                         IN  IF ~v.ok THEN ParseFail
                             ELSE LET k   == SkipWs(s, v.pos)
                                      mem == Append(acc, Member(key.val.s, v.val))
                                  IN  IF k > Len(s) THEN ParseFail
                                      ELSE IF s[k] = "}" THEN ParseOk(k + 1, Obj(mem))
                                      ELSE IF s[k] = ","
                                           THEN ParseMembers(s, SkipWs(s, k + 1), mem)
                                      ELSE ParseFail

\* JSON.parse(s): [ok, val]; ok = FALSE stands for the SyntaxError it throws
JSONParse(s) ==
  LET v == ParseValue(s, SkipWs(s, 1))
  IN  IF v.ok /\ SkipWs(s, v.pos) = Len(s) + 1
      THEN [ok |-> TRUE, val |-> v.val]
      ELSE [ok |-> FALSE, val |-> Undefined]

Parses(s) == JSONParse(s).ok

(***************************************************************************)
(* extractJSON (src/actions/ai-actions.ts).  A match is [found, s].       *)
(***************************************************************************)
\* the grave accent U+0060, which a TLA+ string cannot hold
BACKTICK == "U+0060"

TICKS == <<BACKTICK, BACKTICK, BACKTICK>>

JSONLABEL == <<"j", "s", "o", "n">>

NoMatch == [found |-> FALSE, s |-> <<>>]

\* text.match(/\[[\s\S]*\]/): from the first "[" to the last "]" after it
JsonArrayMatch(t) ==
  LET first == IndexOf(t, "[")
      last  == LastIndexOf(t, "]")
  IN  IF first # 0 /\ last > first
      THEN [found |-> TRUE, s |-> SubSeq(t, first, last)]
      ELSE NoMatch

\* the capture group of the fenced-block pattern of line 169: the
\* match starts at the leftmost fence, skips the label and the white space,
\* and the lazy group ends before the white space that precedes the next fence
CodeBlockMatch(t) ==
  LET fences == Occurrences(t, TICKS)
  IN  IF fences = {} THEN NoMatch
      ELSE LET open    == MinOf(fences)
               labeled == StartsWithAt(t, open + 3, JSONLABEL)
               start   == SkipWs(t, IF labeled THEN open + 7 ELSE open + 3)
               closers == {q \in fences : q >= start}
           IN  IF closers = {} THEN NoMatch
               ELSE LET close == MinOf(closers)
                        stop  == MinOf({e \in start..close :
                                          \A k \in e..(close - 1) : t[k] \in WS})
                    IN  [found |-> TRUE, s |-> SubSeq(t, start, stop - 1)]

\* text.substring(firstBracket, lastBracket + 1) under the guard of line 183
BracketScan(t) ==
  LET firstBracket == IndexOf(t, "[")
      lastBracket  == LastIndexOf(t, "]")
  IN  IF firstBracket # 0 /\ lastBracket # 0 /\ lastBracket > firstBracket
      THEN [found |-> TRUE, s |-> SubSeq(t, firstBracket, lastBracket)]
      ELSE NoMatch

Returned(out, tried) == [ok |-> TRUE, out |-> out, tried |-> tried]

Thrown(tried) == [ok |-> FALSE, out |-> <<>>, tried |-> tried]

extractJSON_SwappedOrder(t) ==
  LET trimmed        == Trim(t)
      jsonArrayMatch == JsonArrayMatch(t)
      codeBlockMatch == CodeBlockMatch(t)
      bracketScan    == BracketScan(t)
  IN  IF Parses(trimmed) THEN Returned(trimmed, <<"direct">>)
      ELSE IF codeBlockMatch.found /\ Parses(codeBlockMatch.s)
           THEN Returned(codeBlockMatch.s, <<"direct", "fence">>)
      ELSE IF jsonArrayMatch.found /\ Parses(jsonArrayMatch.s)
           THEN Returned(jsonArrayMatch.s, <<"direct", "fence", "greedy">>)
      ELSE IF bracketScan.found /\ Parses(bracketScan.s)
           THEN Returned(bracketScan.s, <<"direct", "fence", "greedy", "scan">>)
      ELSE Thrown(<<"direct", "fence", "greedy", "scan">>)

extractJSON_PlaceholderOnFailure(t) ==
  LET trimmed        == Trim(t)
      jsonArrayMatch == JsonArrayMatch(t)
      codeBlockMatch == CodeBlockMatch(t)
      bracketScan    == BracketScan(t)
  IN  IF Parses(trimmed) THEN Returned(trimmed, <<"direct">>)
      ELSE IF jsonArrayMatch.found /\ Parses(jsonArrayMatch.s)
           THEN Returned(jsonArrayMatch.s, <<"direct", "greedy">>)
      ELSE IF codeBlockMatch.found /\ Parses(codeBlockMatch.s)
           THEN Returned(codeBlockMatch.s, <<"direct", "greedy", "fence">>)
      ELSE IF bracketScan.found /\ Parses(bracketScan.s)
           THEN Returned(bracketScan.s, <<"direct", "greedy", "fence", "scan">>)
      ELSE Returned(<<"[", "]">>, <<"direct", "greedy", "fence", "scan">>)

\* [ok, out, tried]: ok = FALSE is the Error thrown at line 195; tried lists
\* the strategies evaluated, in the order the control flow reaches them
extractJSON(t) ==
  LET trimmed        == Trim(t)
      jsonArrayMatch == JsonArrayMatch(t)
      codeBlockMatch == CodeBlockMatch(t)
      bracketScan    == BracketScan(t)
  IN  IF Parses(trimmed) THEN Returned(trimmed, <<"direct">>)
      ELSE IF jsonArrayMatch.found /\ Parses(jsonArrayMatch.s)
           THEN Returned(jsonArrayMatch.s, <<"direct", "greedy">>)
      ELSE IF codeBlockMatch.found /\ Parses(codeBlockMatch.s)
           THEN Returned(codeBlockMatch.s, <<"direct", "greedy", "fence">>)
      ELSE IF bracketScan.found /\ Parses(bracketScan.s)
           THEN Returned(bracketScan.s, <<"direct", "greedy", "fence", "scan">>)
      ELSE Thrown(<<"direct", "greedy", "fence", "scan">>)

(***************************************************************************)
(* The server actions.  A generation outcome is [threw, text]: what        *)
(* generateText resolves to, or its rejection.  A result is               *)
(* [success, data, error].                                                 *)
(***************************************************************************)
GenText(t) == [threw |-> FALSE, text |-> t]

GenThrew == [threw |-> TRUE, text |-> <<>>]

Success(data) == [success |-> TRUE, data |-> data, error |-> "none"]

Failure(error) == [success |-> FALSE, data |-> <<>>, error |-> error]

generateAIInsights(gen) ==
  LET cleanedText == extractJSON(gen.text)
  IN  IF gen.threw \/ ~cleanedText.ok
      THEN Failure("Failed to generate insights. Please try again later.")
      ELSE Success(cleanedText.out)

generatePatternVisualizations(gen) ==
  LET cleanedText == extractJSON(gen.text)
  IN  IF gen.threw \/ ~cleanedText.ok
      THEN Failure("Failed to generate visualizations. Please try again later.")
      ELSE Success(cleanedText.out)

(***************************************************************************)
(* JavaScript's view of a JSON value: property access, truthiness, ||,    *)
(* String(), JSON.stringify.                                               *)
(***************************************************************************)
INSIGHT == <<"i", "n", "s", "i", "g", "h", "t">>

CONFIDENCE == <<"c", "o", "n", "f", "i", "d", "e", "n", "c", "e">>

TEXT == <<"t", "e", "x", "t">>

TYPE == <<"t", "y", "p", "e">>

WEEKLY == <<"w", "e", "e", "k", "l", "y">>

MONTHLY == <<"m", "o", "n", "t", "h", "l", "y">>

TITLE == <<"t", "i", "t", "l", "e">>

DESCRIPTION == <<"d", "e", "s", "c", "r", "i", "p", "t", "i", "o", "n">>

CHART_TYPE == <<"c", "h", "a", "r", "t", "T", "y", "p", "e">>

BAR == <<"b", "a", "r">>

DATA == <<"d", "a", "t", "a">>

INSIGHTS == <<"i", "n", "s", "i", "g", "h", "t", "s">>

DAY == <<"d", "a", "y">>

SEVERITY == <<"s", "e", "v", "e", "r", "i", "t", "y">>

COUNT == <<"c", "o", "u", "n", "t">>

OBJECT_OBJECT ==
  <<"[", "o", "b", "j", "e", "c", "t", " ", "O", "b", "j", "e", "c", "t", "]">>

\* item.key; reading a property of null or undefined throws, see Nullish
Get(v, key) ==
  IF v.t # "obj" THEN Undefined
  ELSE LET hits == {j \in 1..Len(v.kids) : v.kids[j].s = key}
       IN  IF hits = {} THEN Undefined ELSE v.kids[MaxOf(hits)].kids[1]

Has(v, key) == v.t = "obj" /\ \E j \in 1..Len(v.kids) : v.kids[j].s = key

Nullish(v) == v.t \in {"null", "undefined"}

Truthy(v) ==
  CASE v.t = "num" -> v.n # 0
    [] v.t = "str" -> v.s # <<>>
    [] v.t \in {"false", "null", "undefined"} -> FALSE
    [] OTHER -> TRUE

\* a || b
OrElse(a, b) == IF Truthy(a) THEN a ELSE b

\* Number(v) of a number, boolean or null; every other value of the model's
\* responses converts to NaN
IsNaN(v) == v.t \notin {"num", "true", "false", "null"}

ToNumber(v) == IF v.t = "num" THEN v.n ELSE IF v.t = "true" THEN 1 ELSE 0

\* a > b, false when either side is NaN (two strings, which JavaScript
\* compares as text, do not occur as confidences in the model's responses)
Gt(a, b) == ~IsNaN(a) /\ ~IsNaN(b) /\ ToNumber(a) > ToNumber(b)

RECURSIVE Gcd(_, _)
Gcd(a, b) == IF b = 0 THEN a ELSE Gcd(b, a % b)

\* the number p / q, q > 0, in lowest terms: kids holds the denominator
Ratio(p, q) ==
  LET g == Gcd(p, q)
  IN  IF g = q THEN Num(p \div q)
      ELSE Val("num", p \div g, <<>>, <<Num(q \div g)>>)

Numerator(v) == v.n

Denominator(v) == IF v.kids = <<>> THEN 1 ELSE v.kids[1].n

\* array.length, string.length (-1 for undefined)
Length(v) ==
  IF v.t = "arr" THEN Len(v.kids) ELSE IF v.t = "str" THEN Len(v.s) ELSE -1

RECURSIVE NumToText(_)
NumToText(n) ==
  IF n < 10 THEN <<DigitChar(n)>>
  ELSE Append(NumToText(n \div 10), DigitChar(n % 10))

RECURSIVE Join(_, _)
Join(texts, sep) ==
  IF texts = <<>> THEN <<>>
  ELSE IF Len(texts) = 1 THEN texts[1]
  ELSE texts[1] \o sep \o Join(Tail(texts), sep)

\* String(v)
RECURSIVE ToStr(_)
ToStr(v) ==
  CASE v.t = "str" -> v.s
    [] v.t = "num" -> NumToText(v.n)
    [] v.t = "true" -> <<"t", "r", "u", "e">>
    [] v.t = "false" -> <<"f", "a", "l", "s", "e">>
    [] v.t = "null" -> <<"n", "u", "l", "l">>
    [] v.t = "obj" -> OBJECT_OBJECT
    [] v.t = "arr" ->
         Join([j \in 1..Len(v.kids) |->
                 IF Nullish(v.kids[j]) THEN <<>> ELSE ToStr(v.kids[j])], <<",">>)
    [] OTHER -> <<"u", "n", "d", "e", "f", "i", "n", "e", "d">>

Quoted(s) == <<"\"">> \o s \o <<"\"">>

\* JSON.stringify(v), the compact form
RECURSIVE Stringify(_)
Stringify(v) ==
  CASE v.t = "str" -> Quoted(v.s)
    [] v.t = "num" -> NumToText(v.n)
    [] v.t = "arr" ->
         <<"[">> \o Join([j \in 1..Len(v.kids) |-> Stringify(v.kids[j])], <<",">>)
                 \o <<"]">>
    [] v.t = "obj" ->
         <<"{">> \o Join([j \in 1..Len(v.kids) |->
                            Quoted(v.kids[j].s) \o <<":">>
                              \o Stringify(v.kids[j].kids[1])], <<",">>)
                 \o <<"}">>
    [] OTHER -> ToStr(v)

(***************************************************************************)
(* The tracker's records (src/components/symptom-tracker.tsx).  A date is *)
(* the number of a calendar day in the browser's time zone: the entries   *)
(* are dated at local midnight.                                            *)
(***************************************************************************)
DEFAULT_SYMPTOM_TYPES ==
  <<"Pain", "Fatigue", "Stiffness", "Swelling", "Redness", "Fever", "Limited Mobility">>

NoWeather ==
  [has |-> FALSE, temperature |-> 0, humidity |-> 0, pressure |-> 0,
   description |-> "none", icon |-> "none", windSpeed |-> 0, uvIndex |-> 0,
   feelsLike |-> 0]

Weather(temperature, humidity, pressure, description) ==
  [has |-> TRUE, temperature |-> temperature, humidity |-> humidity,
   pressure |-> pressure, description |-> description, icon |-> "01d",
   windSpeed |-> 3, uvIndex |-> 5, feelsLike |-> temperature]

SymptomEntry(id, date, severity, notes, symptoms, weather) ==
  [id |-> id, date |-> date, severity |-> severity, notes |-> notes,
   symptoms |-> symptoms, weather |-> weather]

MedicationEntry(id, name, startDate, hasEnd, endDate) ==
  [id |-> id, name |-> name, dosage |-> "10mg", frequency |-> "daily",
   times |-> <<"08:00">>, startDate |-> startDate, hasEnd |-> hasEnd,
   endDate |-> endDate, reminderEnabled |-> FALSE]

\* the day number of new Date()
Today == 1000

\* the length of a month in date-fns' subMonths and format(_, "MMMM")
DaysPerMonth == 30

TimeZones == {"utc", "east", "west"}

TimeRanges == {3, 6, 12, 24}

\* date.toISOString().split("T")[0] of a local midnight: east of Greenwich
\* the UTC instant lies in the previous day
ISODate(date, zone) == IF zone = "east" THEN date - 1 ELSE date

\* format(date, "EEEE") of a local date, as a number 0..6
Weekday(date) == date % 7

\* format(new Date(iso), "EEEE"): the ISO day is read as UTC midnight and
\* formatted locally, which west of Greenwich is the evening before
WeekdayOfISO(iso, zone) == Weekday(IF zone = "west" THEN iso - 1 ELSE iso)

\* format(date, "MMMM"), as a number 0..11
MonthOf(date) == (date \div DaysPerMonth) % 12

\* subMonths(date, months)
subMonths(date, months) == date - months * DaysPerMonth

\* array.slice(-n)
LastN(list, n) ==
  IF Len(list) <= n THEN list ELSE SubSeq(list, Len(list) - n + 1, Len(list))

\* array.slice(0, n - 1): a slice that stops one element early
FirstN_OneShort(list, n) ==
  IF Len(list) <= n - 1 THEN list ELSE SubSeq(list, 1, n - 1)

\* array.slice(0, n)
FirstN(list, n) == IF Len(list) <= n THEN list ELSE SubSeq(list, 1, n)

\* Object.entries(s.symptoms).filter(([_, present]) => present).map(([name]) => name)
PresentNames(symptoms) ==
  LET kept == SelectSeq(symptoms, LAMBDA e : e.present)
  IN  [j \in 1..Len(kept) |-> kept[j].name]

\* s.weather handed on whole in place of the three fields picked out of it
ReducedWeather_WholeRecord(w) == w

\* s.weather ? { temperature, humidity, description } : null
ReducedWeather(w) ==
  [has |-> w.has, temperature |-> w.temperature, humidity |-> w.humidity,
   description |-> w.description]

\* the number of entries the insights view keeps for the prompt
RecentLimit == 30

\* symptomSummary of generateInsights
SymptomSummary(list, zone) ==
  LET recentSymptoms == LastN(list, RecentLimit)
  IN  [j \in 1..Len(recentSymptoms) |->
         [date     |-> ISODate(recentSymptoms[j].date, zone),
          severity |-> recentSymptoms[j].severity,
          symptoms |-> PresentNames(recentSymptoms[j].symptoms),
          weather  |-> ReducedWeather(recentSymptoms[j].weather),
          notes    |-> recentSymptoms[j].notes]]

\* medicationSummary of generateInsights
MedicationSummary(meds, zone) ==
  [j \in 1..Len(meds) |->
     [name      |-> meds[j].name,
      dosage    |-> meds[j].dosage,
      frequency |-> meds[j].frequency,
      startDate |-> ISODate(meds[j].startDate, zone),
      ongoing   |-> ~meds[j].hasEnd,
      endDate   |-> IF meds[j].hasEnd THEN ISODate(meds[j].endDate, zone) ELSE 0]]

(***************************************************************************)
(* generateFallbackInsights (src/components/ai-insights.tsx).              *)
(***************************************************************************)
RECURSIVE SumSeverity(_)
SumSeverity(summary) ==
  IF summary = <<>> THEN 0 ELSE summary[1].severity + SumSeverity(Tail(summary))

\* the significant bits of a double
MantissaBits == 53

\* the bits of rest / den after the binary point, taken until the double has
\* its MantissaBits significant bits (have of them so far, the last one
\* last): +1 when the double nearest to the quotient lies above it, -1 when
\* it lies below, 0 when it is the quotient (round to nearest, ties to even)
RECURSIVE DoubleError(_, _, _, _)
DoubleError(rest, den, have, last) ==
  IF rest = 0 THEN 0
  ELSE IF have = MantissaBits
       THEN IF 2 * rest > den THEN 1
            ELSE IF 2 * rest < den THEN -1
            ELSE IF last = 1 THEN 1 ELSE -1
       ELSE LET bit == (2 * rest) \div den
            IN  DoubleError((2 * rest) % den, den,
                            IF have = 0 /\ bit = 0 THEN 0 ELSE have + 1, bit)

RECURSIVE BitLength(_)
BitLength(n) == IF n = 0 THEN 0 ELSE 1 + BitLength(n \div 2)

\* the sign of (the double sum / count) - (the quotient of sum by count)
DivisionError(sum, count) ==
  DoubleError(sum % count, count, BitLength(sum \div count), (sum \div count) % 2)

\* toFixed(1) with the digits after the first cut off
ToFixed1_Truncating(sum, count) == (10 * sum) \div count

\* (sum / count).toFixed(1), in tenths: the tenth nearest to the double, the
\* larger one when the double lies halfway between two. A quotient halfway
\* between two tenths goes up when the double holds it (k + 0.25, k + 0.75)
\* and where the double lies as DivisionError says when it does not (the odd
\* twentieths)
ToFixed1(sum, count) ==
  LET tenths == (10 * sum) \div count
      twice  == 2 * ((10 * sum) % count)
  IN  IF twice > count THEN tenths + 1
      ELSE IF twice < count THEN tenths
      ELSE IF DivisionError(sum, count) < 0 THEN tenths ELSE tenths + 1

RECURSIVE Flatten(_)
Flatten(lists) ==
  IF lists = <<>> THEN <<>> ELSE lists[1] \o Flatten(Tail(lists))

\* the keys of symptomCounts in the order of their first insertion
RECURSIVE FirstSeen(_, _)
FirstSeen(names, acc) ==
  IF names = <<>> THEN acc
  ELSE FirstSeen(Tail(names),
                 IF \E j \in 1..Len(acc) : acc[j] = names[1] THEN acc
                 ELSE Append(acc, names[1]))

CountOf(names, name) == Cardinality({j \in 1..Len(names) : names[j] = name})

\* Object.entries(symptomCounts).sort(([, a], [, b]) => b - a): a stable sort
RECURSIVE SortByCount(_, _)
SortByCount(keys, names) ==
  IF keys = <<>> THEN <<>>
  ELSE LET best == MinOf({j \in 1..Len(keys) :
                            \A k \in 1..Len(keys) :
                              CountOf(names, keys[k]) <= CountOf(names, keys[j])})
           rest == [j \in 1..(Len(keys) - 1) |->
                      IF j < best THEN keys[j] ELSE keys[j + 1]]
       IN  <<keys[best]>> \o SortByCount(rest, names)

FallbackItem(insight, confidence) ==
  [insight |-> insight, confidence |-> Num(confidence)]

generateFallbackInsights(summary, meds) ==
  LET count      == Len(summary)
      sum        == SumSeverity(summary)
      names      == Flatten([j \in 1..count |-> summary[j].symptoms])
      sorted     == SortByCount(FirstSeen(names, <<>>), names)
      mostCommon == FirstN(sorted, 2)
      weatherEntries == SelectSeq(summary, LAMBDA e : e.weather.has)
      severityPart ==
        IF count > 0
        THEN <<FallbackItem(Tpl(IF sum > 2 * count THEN "severity: discuss treatment adjustments"
                                ELSE "severity: relatively well-managed",
                                <<Num(count), Num(ToFixed1(sum, count))>>), 80)>>
        ELSE <<>>
      commonPart ==
        IF count > 0 /\ Len(mostCommon) > 0
        THEN <<FallbackItem(Tpl("most frequently reported symptoms",
                                [j \in 1..Len(mostCommon) |-> Str(<<mostCommon[j]>>)]), 75)>>
        ELSE <<>>
      medicationPart ==
        IF Len(meds) > 0
        THEN <<FallbackItem(Tpl(IF Len(meds) > 1 THEN "tracking medications"
                                ELSE "tracking medication",
                                <<Num(Len(meds))>>), 70)>>
        ELSE <<>>
      weatherPart ==
        IF Len(weatherEntries) > 5
        THEN <<FallbackItem(Tpl("weather data", <<Num(Len(weatherEntries))>>), 65)>>
        ELSE <<>>
      generalPart == <<FallbackItem(Tpl("continue logging", <<>>), 90)>>
  IN  FirstN(severityPart \o commonPart \o medicationPart \o weatherPart
               \o generalPart, 5)

(***************************************************************************)
(* The inputs of the model.                                                *)
(***************************************************************************)
\* the tracker's lists a view is opened on: count entries, the last dated
\* today, in one of three shapes
ProfileIds == {1, 2, 3}

ProfileZone(p) == CASE p = 1 -> "utc" [] p = 2 -> "east" [] OTHER -> "west"

\* days between two entries
ProfileGap(p) == IF p = 2 THEN 20 ELSE 1

ProfileSeverity(p, j) ==
  CASE p = 1 -> j % 4 [] p = 2 -> 3 [] OTHER -> IF j % 3 = 0 THEN 3 ELSE 2

ProfilePresent(p, j, k) ==
  CASE p = 1 -> k = 2 \/ (k = 1 /\ j % 2 = 0) [] p = 2 -> FALSE [] OTHER -> k <= 3

ProfileWeather(p, j) ==
  CASE p = 1 -> IF j % 2 = 0 THEN Weather(20 + j, 60, 1010, "clear") ELSE NoWeather
    [] p = 2 -> NoWeather
    [] OTHER -> Weather(30, 80, 1000, "rain")

ProfileSymptoms(p, count) ==
  [j \in 1..count |->
     SymptomEntry(j, Today - (count - j) * ProfileGap(p), ProfileSeverity(p, j),
                  "",
                  [k \in 1..Len(DEFAULT_SYMPTOM_TYPES) |->
                     [name |-> DEFAULT_SYMPTOM_TYPES[k],
                      present |-> ProfilePresent(p, j, k)]],
                  ProfileWeather(p, j))]

ProfileMedications(p) ==
  [j \in 1..(IF p = 2 THEN 0 ELSE IF p = 1 THEN 1 ELSE MaxMeds) |->
     MedicationEntry(j, "med", Today - 40 * j, p = 3, Today - j)]

\* elements of response arrays
WithBoth == Obj(<<Member(INSIGHT, Str(<<"a">>)), Member(CONFIDENCE, Num(85))>>)

NoConfidence == Obj(<<Member(INSIGHT, Str(<<"y">>))>>)

TextZero == Obj(<<Member(TEXT, Str(<<"c">>)), Member(CONFIDENCE, Num(0))>>)

OnlyConfidence == Obj(<<Member(CONFIDENCE, Num(50))>>)

WeeklyPattern == Obj(<<Member(TYPE, Str(WEEKLY)), Member(CONFIDENCE, Num(75))>>)

MonthlyPattern == Obj(<<Member(TYPE, Str(MONTHLY)), Member(CONFIDENCE, Num(80))>>)

Fenced(pre, label, gap, body, post) ==
  pre \o TICKS \o label \o gap \o body \o gap \o TICKS \o post

\* texts without a bracket, and texts cut short
Unparseable ==
  {<<"n", "o">>, <<>>, <<"[", "1", ",">>, <<"[", "{", "]">>,
   TICKS \o <<"x">> \o TICKS}

\* what the generation call of the insights view resolves to
InsightValues ==
  {Arr(<<>>), Arr(<<WithBoth>>), Arr(<<NoConfidence>>),
   Arr(<<WithBoth, NoConfidence>>), Arr(<<NoConfidence, TextZero>>),
   Arr(<<OnlyConfidence>>), Arr(<<Lit("null"), NoConfidence>>),
   Arr(<<Num(7), Str(<<"s">>), Lit("true")>>),
   Arr(<<WithBoth, WithBoth, WithBoth, NoConfidence, WithBoth, WithBoth>>),
   Obj(<<>>), NoConfidence, Num(5), Str(<<"x">>), Lit("null")}

InsightTexts ==
  {Stringify(v) : v \in InsightValues}
    \cup {Fenced(<<"H", "i", ":", "\n">>, JSONLABEL, <<"\n">>,
                 Stringify(Arr(<<NoConfidence>>)), <<"\n", "o", "k">>),
          <<"x", " ">> \o Stringify(Arr(<<WithBoth>>)) \o <<" ", "x">>}
    \cup Unparseable

\* what the generation call of the patterns view resolves to
PatternValues ==
  {Arr(<<>>), Arr(<<WeeklyPattern>>), Arr(<<WeeklyPattern, MonthlyPattern>>),
   Arr(<<Lit("null")>>), Obj(<<>>)}

PatternTexts ==
  {Stringify(v) : v \in PatternValues}
    \cup {<<"x", " ">> \o Stringify(Arr(<<MonthlyPattern>>)) \o <<" ", "x">>,
          <<"n", "o">>}

GenOutcomes(texts) == {GenThrew} \cup {GenText(t) : t \in texts}

\* the responses extractJSON is exercised on by itself: every short text
\* over the characters JSON and the fences are made of, ...
ShortAlphabet == {"[", "]", "{", "}", "1", "\"", " ", BACKTICK}

ShortTexts == SeqsUpTo(ShortAlphabet, MaxLen)

\* ... the responses made of prose, a fence around an array, and prose, ...
ProseAlphabet == {"a", "[", "]", "\""}

Prose == SeqsUpTo(ProseAlphabet, MaxProse)

FencedValues ==
  {Arr(<<>>), Arr(<<Num(1)>>), Arr(<<Num(1), Str(<<"b">>)>>), Arr(<<Str(TICKS)>>)}

FencedCases ==
  {[pre |-> pre, label |-> label, gap |-> gap, value |-> v, post |-> post,
    text |-> Fenced(pre, label, gap, Stringify(v), post)] :
     pre \in Prose, label \in {<<>>, JSONLABEL}, gap \in {<<>>, <<"\n">>},
     v \in FencedValues, post \in Prose}

\* ... and a fence around a number followed by an array
FenceThenArray == TICKS \o <<"1">> \o TICKS \o <<"[", "2", "]">>

ExtractTexts == ShortTexts \cup {c.text : c \in FencedCases} \cup {FenceThenArray}

(***************************************************************************)
(* The state.                                                              *)
(***************************************************************************)
VARIABLES
  tz,               \* the browser's time zone
  symptoms,         \* SymptomTracker: symptoms
  medications,      \* SymptomTracker: medications
  symptomTypes,     \* SymptomTracker: symptomTypes
  mainView,         \* SymptomTracker: mainView, the view that is mounted
  insights,         \* AIInsights: insights
  confidenceScores, \* AIInsights: confidenceScores
  iError,           \* AIInsights: error ("null" for null)
  iLoading,         \* AIInsights: isLoading
  lastUpdated,      \* AIInsights: lastUpdated is set
  iPending,         \* AIInsights: the calls of generateInsights awaiting the server
  iDone,            \* AIInsights: the path the last generateInsights returned by
  pLoading,         \* AIPatternVisualization: isLoading
  pError,           \* AIPatternVisualization: error ("null" for null)
  patternData,      \* AIPatternVisualization: patternData
  activePattern,    \* AIPatternVisualization: activePattern
  timeRange,        \* AIPatternVisualization: timeRange
  pPending,         \* AIPatternVisualization: the generation calls in flight
  pDone,            \* AIPatternVisualization: the path the last call returned by
  genOutcome,       \* server: what generateText resolved to
  extraction,       \* server: the result of extractJSON
  serverResult,     \* server: the value a server action returned
  pureIn,           \* the arguments of a function applied on its own
  pureOut,          \* its result
  emergencyContacts, \* SymptomTracker: emergencyContacts
  notifications,    \* notifications: the timeouts pending and the ids stored
  weatherJob        \* WeatherDisplay: isLoading and the updateHistoricalWeather calls in progress

\* what the tracker holds beside the lists the AI views are handed
sideVars == <<emergencyContacts, notifications, weatherJob>>

trackerVars == <<tz, symptoms, medications, symptomTypes, sideVars>>

\* no contact, no timeout pending or stored, no weather update in progress
SideIdle ==
  /\ emergencyContacts = <<>>
  /\ notifications = [pending |-> {}, stored |-> {}]
  /\ weatherJob = [isLoading |-> FALSE, jobs |-> <<>>]

insightsVars ==
  <<insights, confidenceScores, iError, iLoading, lastUpdated, iPending, iDone>>

patternsVars ==
  <<pLoading, pError, patternData, activePattern, timeRange, pPending, pDone>>

serverVars == <<genOutcome, extraction, serverResult>>

pureVars == <<pureIn, pureOut>>

vars == <<trackerVars, mainView, insightsVars, patternsVars, serverVars, pureVars>>

NoError == "null"

NotDone(path) == [path |-> path, gen |-> GenThrew, summary |-> <<>>, meds |-> <<>>]

Done(path, gen, req) ==
  [path |-> path, gen |-> gen, summary |-> req.symptomSummary,
   meds |-> req.medicationSummary]

(***************************************************************************)
(* AIInsights (src/components/ai-insights.tsx).                            *)
(***************************************************************************)
hasEnoughData_AnyEntry == Len(symptoms) >= 1

hasEnoughData == Len(symptoms) >= 5

\* the state of a freshly mounted AIInsights
InsightsUnmounted ==
  /\ insights = <<>>
  /\ confidenceScores = <<>>
  /\ iError = NoError
  /\ iLoading = FALSE
  /\ lastUpdated = FALSE
  /\ iPending = <<>>
  /\ iDone = NotDone("none")

InsightsReset ==
  /\ insights' = <<>>
  /\ confidenceScores' = <<>>
  /\ iError' = NoError
  /\ iLoading' = FALSE
  /\ lastUpdated' = FALSE
  /\ iPending' = <<>>
  /\ iDone' = NotDone("none")

\* the state of a freshly mounted AIPatternVisualization
PatternsUnmounted ==
  /\ pLoading = FALSE
  /\ pError = NoError
  /\ patternData = Arr(<<>>)
  /\ activePattern = Str(WEEKLY)
  /\ timeRange = 6
  /\ pPending = <<>>
  /\ pDone = [path |-> "none", gen |-> GenThrew, range |-> 6]

PatternsReset ==
  /\ pLoading' = FALSE
  /\ pError' = NoError
  /\ patternData' = Arr(<<>>)
  /\ activePattern' = Str(WEEKLY)
  /\ timeRange' = 6
  /\ pPending' = <<>>
  /\ pDone' = [path |-> "none", gen |-> GenThrew, range |-> 6]

\* generateInsights with splice in place of the slice of line 50: the last
\* RecentLimit entries are cut out of the symptoms array it was handed
generateInsights_Splice(cur) ==
  /\ symptoms' = FirstN(symptoms, Len(symptoms) - Len(LastN(symptoms, RecentLimit)))
  /\ UNCHANGED <<tz, medications, symptomTypes, sideVars>>
  /\ IF ~hasEnoughData
     THEN /\ iError' = "At least 5 symptom entries are needed to generate insights."
          /\ iDone' = NotDone("gate")
          /\ iLoading' = FALSE
          /\ iPending' = <<>>
          /\ insights' = cur.insights
          /\ confidenceScores' = cur.confidenceScores
          /\ lastUpdated' = cur.lastUpdated
     ELSE /\ iLoading' = TRUE
          /\ iError' = NoError
          /\ iPending' = <<[symptomSummary    |-> SymptomSummary(symptoms, tz),
                            medicationSummary |-> MedicationSummary(medications, tz)]>>
          /\ iDone' = NotDone("awaiting")
          /\ insights' = cur.insights
          /\ confidenceScores' = cur.confidenceScores
          /\ lastUpdated' = cur.lastUpdated

\* generateInsights up to its await, called on a view whose insights,
\* confidenceScores and lastUpdated are cur; it reads its props (slice and
\* map copy, lines 50-76) and writes only the view's own state
generateInsights(cur) ==
  /\ UNCHANGED trackerVars
  /\ IF ~hasEnoughData
     THEN /\ iError' = "At least 5 symptom entries are needed to generate insights."
          /\ iDone' = NotDone("gate")
          /\ iLoading' = FALSE
          /\ iPending' = <<>>
          /\ insights' = cur.insights
          /\ confidenceScores' = cur.confidenceScores
          /\ lastUpdated' = cur.lastUpdated
     ELSE /\ iLoading' = TRUE
          /\ iError' = NoError
          /\ iPending' = <<[symptomSummary    |-> SymptomSummary(symptoms, tz),
                            medicationSummary |-> MedicationSummary(medications, tz)]>>
          /\ iDone' = NotDone("awaiting")
          /\ insights' = cur.insights
          /\ confidenceScores' = cur.confidenceScores
          /\ lastUpdated' = cur.lastUpdated

\* the mapping of lines 91-92 throws on an element that is null
MappingThrows(parsed) == \E j \in 1..Len(parsed.kids) : Nullish(parsed.kids[j])

insightList(parsed) ==
  [j \in 1..Len(parsed.kids) |->
     OrElse(Get(parsed.kids[j], INSIGHT),
            OrElse(Get(parsed.kids[j], TEXT), Str(ToStr(parsed.kids[j]))))]

confidenceList(parsed) ==
  [j \in 1..Len(parsed.kids) |-> OrElse(Get(parsed.kids[j], CONFIDENCE), Num(70))]

\* the rest of generateInsights once the server action has returned result
InsightsContinue(result, gen, req) ==
  LET parsed   == JSONParse(result.data)
      fallback == generateFallbackInsights(req.symptomSummary, req.medicationSummary)
  IN  /\ iLoading' = FALSE
      /\ iPending' = <<>>
      /\ IF ~result.success
         THEN /\ iError' = result.error
              /\ iDone' = Done("failure", gen, req)
              /\ UNCHANGED <<insights, confidenceScores, lastUpdated>>
         ELSE IF parsed.ok /\ parsed.val.t = "arr" /\ ~MappingThrows(parsed.val)
         THEN /\ insights' = insightList(parsed.val)
              /\ confidenceScores' = confidenceList(parsed.val)
              /\ lastUpdated' = TRUE
              /\ iDone' = Done("parsed", gen, req)
              /\ UNCHANGED iError
         ELSE /\ insights' = [j \in 1..Len(fallback) |-> fallback[j].insight]
              /\ confidenceScores' = [j \in 1..Len(fallback) |-> fallback[j].confidence]
              /\ lastUpdated' = TRUE
              /\ iError' = "AI response could not be processed. Showing basic analysis instead."
              /\ iDone' = Done("fallback", gen, req)

\* what the card shows: the chain of conditions of lines 195-265
RenderInsights ==
  IF ~hasEnoughData THEN "insufficient data"
  ELSE IF iError # NoError THEN "alert"
  ELSE IF iLoading THEN "skeleton"
  ELSE IF Len(insights) > 0 THEN "insight list"
  ELSE "placeholder"

\* the confidence shown for insight j: confidenceScores[index] || "N/A"
ShownConfidence(j) ==
  IF j <= Len(confidenceScores)
  THEN OrElse(confidenceScores[j], Str(<<"N", "/", "A">>))
  ELSE Str(<<"N", "/", "A">>)

\* the user opens the insights view: the mount effect of lines 33-37
OpenInsights ==
  /\ mainView # "insights"
  /\ mainView' = "insights"
  /\ PatternsReset
  /\ IF hasEnoughData
     THEN generateInsights([insights |-> <<>>, confidenceScores |-> <<>>,
                            lastUpdated |-> FALSE])
     ELSE InsightsReset /\ UNCHANGED trackerVars
  /\ UNCHANGED <<serverVars, pureVars>>

\* the Generate Insights button, disabled while loading or short of data
ClickGenerateInsights ==
  /\ mainView = "insights"
  /\ ~iLoading
  /\ hasEnoughData
  /\ generateInsights([insights |-> insights, confidenceScores |-> confidenceScores,
                       lastUpdated |-> lastUpdated])
  /\ UNCHANGED <<mainView, patternsVars, serverVars, pureVars>>

\* the server action runs on what the generation call resolved to and the
\* view's generateInsights resumes with its result
ResolveInsights ==
  /\ mainView = "insights"
  /\ iPending # <<>>
  /\ \E gen \in GenOutcomes(InsightTexts) :
       InsightsContinue(generateAIInsights(gen), gen, iPending[1])
  /\ UNCHANGED <<trackerVars, mainView, patternsVars, serverVars, pureVars>>

\* the call of the server action rejects and no finally clears isLoading
RejectInsights_NoFinally ==
  /\ mainView = "insights"
  /\ iPending # <<>>
  /\ iError' = "Failed to generate insights. Please try again later."
  /\ iLoading' = iLoading
  /\ iPending' = <<>>
  /\ iDone' = Done("rejected", GenThrew, iPending[1])
  /\ UNCHANGED <<insights, confidenceScores, lastUpdated>>
  /\ UNCHANGED <<trackerVars, mainView, patternsVars, serverVars, pureVars>>

\* the call of the server action itself rejects: the catch of line 110
RejectInsights ==
  /\ mainView = "insights"
  /\ iPending # <<>>
  /\ iError' = "Failed to generate insights. Please try again later."
  /\ iLoading' = FALSE
  /\ iPending' = <<>>
  /\ iDone' = Done("rejected", GenThrew, iPending[1])
  /\ UNCHANGED <<insights, confidenceScores, lastUpdated>>
  /\ UNCHANGED <<trackerVars, mainView, patternsVars, serverVars, pureVars>>

(***************************************************************************)
(* AIPatternVisualization (src/components/ai-pattern-visualization.tsx).   *)
(***************************************************************************)
\* symptomData of generateVisualizations: the entries dated at or after
\* cutoffDate, an instant within the day subMonths(Today, range)
symptomData(list, range, zone) ==
  LET cutoffDate       == subMonths(Today, range)
      filteredSymptoms == SelectSeq(list, LAMBDA e : e.date > cutoffDate)
  IN  [j \in 1..Len(filteredSymptoms) |->
         [date     |-> ISODate(filteredSymptoms[j].date, zone),
          day      |-> Weekday(filteredSymptoms[j].date),
          month    |-> MonthOf(filteredSymptoms[j].date),
          severity |-> filteredSymptoms[j].severity,
          symptoms |-> PresentNames(filteredSymptoms[j].symptoms),
          weather  |-> ReducedWeather(filteredSymptoms[j].weather)]]

\* generateVisualizations up to its await, under the time range of the render
\* that calls it; it leaves patternData, activePattern and timeRange alone
generateVisualizations(range, zone) ==
  LET data == symptomData(symptoms, range, zone)
  IN  IF Len(symptoms) < 10
      THEN /\ pError' = "At least 10 symptom entries are needed to generate pattern visualizations."
           /\ pDone' = [path |-> "gate", gen |-> GenThrew, range |-> range]
           /\ UNCHANGED <<pLoading, pPending>>
      ELSE IF Len(data) < 10
      THEN /\ pError' = "Not enough data in the selected time range."
           /\ pLoading' = FALSE
           /\ pDone' = [path |-> "range", gen |-> GenThrew, range |-> range]
           /\ UNCHANGED pPending
      ELSE /\ pLoading' = TRUE
           /\ pError' = NoError
           /\ pPending' = Append(pPending, [timeRange |-> range, symptomData |-> data])
           /\ pDone' = [path |-> "awaiting", gen |-> GenThrew, range |-> range]

\* jsonText of lines 190-203: the trimmed text from its first "[" (when that
\* is not its first character) to its last "]" (when that is not its first)
PatternJsonText(t) ==
  LET trimmed       == Trim(t)
      jsonStartIndex == IndexOf(trimmed, "[")
      fromStart     == IF jsonStartIndex > 1
                       THEN SubSeq(trimmed, jsonStartIndex, Len(trimmed))
                       ELSE trimmed
      jsonEndIndex  == LastIndexOf(fromStart, "]")
  IN  IF jsonEndIndex > 1 THEN SubSeq(fromStart, 1, jsonEndIndex) ELSE fromStart

\* parsedData.reduce((prev, current) =>
\*   current.confidence > prev.confidence ? current : prev, parsedData[0])
RECURSIVE HighestConfidence(_, _)
HighestConfidence(items, prev) ==
  IF items = <<>> THEN prev
  ELSE HighestConfidence(Tail(items),
                         IF Gt(Get(items[1], CONFIDENCE), Get(prev, CONFIDENCE))
                         THEN items[1] ELSE prev)

\* lines 206-214 complete without a TypeError: parsedData has a reduce
\* method, no element whose confidence is read is null, and the pattern
\* whose type is read exists
PatternsUsable(parsed) ==
  /\ parsed.t = "arr"
  /\ parsed.kids # <<>>
  /\ \A j \in 1..Len(parsed.kids) : ~Nullish(parsed.kids[j])

Bucket(day, severity, count) == [day |-> day, severity |-> severity, count |-> count]

\* the reduce of lines 225-239 over the entries of symptomData
RECURSIVE WeeklyBuckets(_, _, _)
WeeklyBuckets(entries, acc, zone) ==
  IF entries = <<>> THEN acc
  ELSE LET curr  == entries[1]
           day   == WeekdayOfISO(curr.date, zone)
           found == {j \in 1..Len(acc) : acc[j].day = day}
       IN  IF found = {}
           THEN WeeklyBuckets(Tail(entries),
                              Append(acc, Bucket(day, Num(curr.severity), 1)), zone)
           ELSE LET k    == MinOf(found)
                    item == acc[k]
                    mean == Ratio(Numerator(item.severity) * item.count
                                    + curr.severity * Denominator(item.severity),
                                  Denominator(item.severity) * (item.count + 1))
                IN  WeeklyBuckets(Tail(entries),
                                  [acc EXCEPT ![k] = Bucket(day, mean, item.count + 1)],
                                  zone)

DayName(day) ==
  CASE day = 0 -> "Sunday" [] day = 1 -> "Monday" [] day = 2 -> "Tuesday"
    [] day = 3 -> "Wednesday" [] day = 4 -> "Thursday" [] day = 5 -> "Friday"
    [] OTHER -> "Saturday"

\* the record of fallbackData, lines 220-245; a fixed sentence is held as
\* one string
fallbackRecord(data, zone) ==
  LET buckets == WeeklyBuckets(data, <<>>, zone)
  IN  Obj(<<
        Member(TYPE, Str(WEEKLY)),
        Member(TITLE, Str(<<"Weekly Symptom Pattern">>)),
        Member(DESCRIPTION, Str(<<"Shows how symptoms vary by day of the week">>)),
        Member(CHART_TYPE, Str(BAR)),
        Member(DATA, Arr([j \in 1..Len(buckets) |->
                 Obj(<<Member(DAY, Str(<<DayName(buckets[j].day)>>)),
                       Member(SEVERITY, buckets[j].severity),
                       Member(COUNT, Num(buckets[j].count))>>)])),
        Member(INSIGHTS, Arr(<<
                 Str(<<"This visualization shows your symptom patterns by day of week">>),
                 Str(<<"The data is based on your recorded symptoms">>)>>)),
        Member(CONFIDENCE, Num(60))>>)

\* a fallback pushed onto the records the view holds in place of a new array
fallbackData_Appended(data, zone) ==
  Arr(Append(patternData.kids, fallbackRecord(data, zone)))

\* fallbackData of lines 219-246: a new array of the one record
fallbackData(data, zone) == Arr(<<fallbackRecord(data, zone)>>)

RemoveAt(list, k) ==
  [j \in 1..(Len(list) - 1) |-> IF j < k THEN list[j] ELSE list[j + 1]]

\* the rest of generateVisualizations once the generation call of the k-th
\* pending request has settled
PatternsContinue(gen, k, zone) ==
  LET req    == pPending[k]
      parsed == JSONParse(PatternJsonText(gen.text))
  IN  /\ pLoading' = FALSE
      /\ pPending' = RemoveAt(pPending, k)
      /\ UNCHANGED timeRange
      /\ IF gen.threw
         THEN /\ pError' = "Failed to generate visualizations. Please try again later."
              /\ pDone' = [path |-> "rejected", gen |-> gen, range |-> req.timeRange]
              /\ UNCHANGED <<patternData, activePattern>>
         ELSE IF parsed.ok /\ PatternsUsable(parsed.val)
         THEN /\ patternData' = parsed.val
              /\ activePattern' =
                   Get(HighestConfidence(parsed.val.kids, parsed.val.kids[1]), TYPE)
              /\ pDone' = [path |-> "parsed", gen |-> gen, range |-> req.timeRange]
              /\ UNCHANGED pError
         ELSE /\ patternData' = fallbackData(req.symptomData, zone)
              /\ activePattern' = Str(WEEKLY)
              /\ pError' = "AI response could not be processed correctly. Showing simplified visualization instead."
              /\ pDone' = [path |-> "fallback", gen |-> gen, range |-> req.timeRange]

\* what the card shows: the chain of conditions of lines 408-430
RenderPatterns ==
  IF Len(symptoms) < 10 THEN "insufficient data"
  ELSE IF pError # NoError THEN "alert"
  ELSE IF pLoading THEN "skeleton"
  ELSE IF Length(patternData) > 0 THEN "tabs"
  ELSE "placeholder"

\* the user opens the patterns view: the effect of lines 71-75 on mount
OpenPatterns ==
  /\ mainView # "patterns"
  /\ mainView' = "patterns"
  /\ InsightsReset
  /\ IF Len(symptoms) >= 10
     THEN generateVisualizations(timeRange, tz)
     ELSE UNCHANGED <<pLoading, pError, pPending, pDone>>
  /\ UNCHANGED <<patternData, activePattern, timeRange>>
  /\ UNCHANGED <<trackerVars, serverVars, pureVars>>

\* the time range select: setTimeRange, then the effect of lines 71-75 on
\* the render with the new range, whether or not a call is in flight
SetTimeRange ==
  /\ mainView = "patterns"
  /\ \E r \in TimeRanges \ {timeRange} :
       /\ timeRange' = r
       /\ IF Len(symptoms) >= 10
          THEN /\ Len(pPending) < MaxInFlight
               /\ generateVisualizations(r, tz)
          ELSE UNCHANGED <<pLoading, pError, pPending, pDone>>
  /\ UNCHANGED <<patternData, activePattern>>
  /\ UNCHANGED <<trackerVars, mainView, insightsVars, serverVars, pureVars>>

\* the Generate button, disabled while loading or short of data
ClickGeneratePatterns ==
  /\ mainView = "patterns"
  /\ ~pLoading
  /\ Len(symptoms) >= 10
  /\ Len(pPending) < MaxInFlight
  /\ generateVisualizations(timeRange, tz)
  /\ UNCHANGED <<patternData, activePattern, timeRange>>
  /\ UNCHANGED <<trackerVars, mainView, insightsVars, serverVars, pureVars>>

\* a generation call in flight settles, in any order, and its
\* generateVisualizations resumes
ResolvePatterns ==
  /\ mainView = "patterns"
  /\ \E k \in 1..Len(pPending), gen \in GenOutcomes(PatternTexts) :
       PatternsContinue(gen, k, tz)
  /\ UNCHANGED <<trackerVars, mainView, insightsVars, serverVars, pureVars>>

\* a generation call in flight rejects: ResolvePatterns on a call that threw
RejectPatterns ==
  /\ mainView = "patterns"
  /\ \E k \in 1..Len(pPending) : PatternsContinue(GenThrew, k, tz)
  /\ UNCHANGED <<trackerVars, mainView, insightsVars, serverVars, pureVars>>

\* the user goes back to the calendar: the mounted view is unmounted
OpenSymptoms ==
  /\ mainView # "symptoms"
  /\ mainView' = "symptoms"
  /\ InsightsReset
  /\ PatternsReset
  /\ UNCHANGED <<trackerVars, serverVars, pureVars>>

\* no function has been applied on its own
PureIdle ==
  /\ pureIn = <<>>
  /\ pureOut = [ran |-> FALSE, value |-> <<>>]

ServerIdle ==
  /\ genOutcome = GenThrew
  /\ extraction = Thrown(<<>>)
  /\ serverResult = [action |-> "none", result |-> Failure("none")]

Init ==
  /\ \E p \in ProfileIds, count \in 0..MaxSymptoms :
       /\ tz = ProfileZone(p)
       /\ symptoms = ProfileSymptoms(p, count)
       /\ medications = ProfileMedications(p)
  /\ symptomTypes = DEFAULT_SYMPTOM_TYPES
  /\ SideIdle
  /\ mainView = "symptoms"
  /\ InsightsUnmounted
  /\ PatternsUnmounted
  /\ ServerIdle
  /\ PureIdle

(***************************************************************************)
(* The server actions on their own: the generation call resolves to any of *)
(* ExtractTexts, or rejects, and each function of src/actions/ai-actions.ts *)
(* runs on it.                                                             *)
(***************************************************************************)
InitExtract ==
  /\ tz = "utc"
  /\ symptoms = <<>>
  /\ medications = <<>>
  /\ symptomTypes = DEFAULT_SYMPTOM_TYPES
  /\ SideIdle
  /\ mainView = "symptoms"
  /\ InsightsUnmounted
  /\ PatternsUnmounted
  /\ genOutcome \in GenOutcomes(ExtractTexts)
  /\ extraction = Thrown(<<>>)
  /\ serverResult = [action |-> "none", result |-> Failure("none")]
  /\ PureIdle

RunExtractJSON ==
  /\ ~genOutcome.threw
  /\ extraction' = extractJSON(genOutcome.text)
  /\ UNCHANGED <<trackerVars, mainView, insightsVars, patternsVars, genOutcome,
                 serverResult, pureVars>>

RunGenerateAIInsights ==
  /\ serverResult' = [action |-> "generateAIInsights",
                      result |-> generateAIInsights(genOutcome)]
  /\ extraction' = IF genOutcome.threw THEN extraction
                   ELSE extractJSON(genOutcome.text)
  /\ UNCHANGED <<trackerVars, mainView, insightsVars, patternsVars, genOutcome,
                 pureVars>>

RunGeneratePatternVisualizations ==
  /\ serverResult' = [action |-> "generatePatternVisualizations",
                      result |-> generatePatternVisualizations(genOutcome)]
  /\ extraction' = IF genOutcome.threw THEN extraction
                   ELSE extractJSON(genOutcome.text)
  /\ UNCHANGED <<trackerVars, mainView, insightsVars, patternsVars, genOutcome,
                 pureVars>>

NextExtract ==
  \/ RunExtractJSON
  \/ RunGenerateAIInsights
  \/ RunGeneratePatternVisualizations

SpecExtract == InitExtract /\ [][NextExtract]_vars

(***************************************************************************)
(* generateFallbackInsights on its own: it is applied to a summary list of *)
(* up to MaxSummary entries and a medication summary of up to two.        *)
(***************************************************************************)
\* a number of entries whose mean severity can lie halfway between two
\* tenths where no double does
TieCount == 20

\* the names marked present in entry j of a summary list of the given shape
SummaryNames(shape, j) ==
  CASE shape = 1 -> <<>>
    [] shape = 2 -> IF j % 2 = 0 THEN <<"Pain", "Fatigue">> ELSE <<"Fatigue">>
    [] OTHER     -> IF j = 1 THEN <<"Fever">> ELSE <<"Pain">>

\* count summaries: the first k of severity sevA and the others of sevB, the
\* first w with weather
SummaryList(count, sevA, sevB, k, w, shape) ==
  [j \in 1..count |->
     [date     |-> Today - count + j,
      severity |-> IF j <= k THEN sevA ELSE sevB,
      symptoms |-> SummaryNames(shape, j),
      weather  |-> IF j <= w THEN ReducedWeather(Weather(20, 60, 1010, "clear"))
                   ELSE ReducedWeather(NoWeather),
      notes    |-> ""]]

MedicationList(count) ==
  MedicationSummary([j \in 1..count |->
                       MedicationEntry(j, "med", Today - 40 * j, FALSE, 0)], "utc")

InitFallback ==
  /\ tz = "utc"
  /\ symptoms = <<>>
  /\ medications = <<>>
  /\ symptomTypes = DEFAULT_SYMPTOM_TYPES
  /\ SideIdle
  /\ mainView = "symptoms"
  /\ InsightsUnmounted
  /\ PatternsUnmounted
  /\ ServerIdle
  /\ \E count \in 0..MaxSummary \cup {TieCount}, sevA \in 0..3, sevB \in {2, 3},
        shape \in 1..3, meds \in 0..2 :
       \E k \in 0..count, w \in {0, 5, count} \cap 0..count :
         pureIn = [summary |-> SummaryList(count, sevA, sevB, k, w, shape),
                   meds    |-> MedicationList(meds)]
  /\ pureOut = [ran |-> FALSE, value |-> <<>>]

RunGenerateFallbackInsights ==
  /\ ~pureOut.ran
  /\ pureOut' = [ran |-> TRUE,
                 value |-> generateFallbackInsights(pureIn.summary, pureIn.meds)]
  /\ UNCHANGED <<trackerVars, mainView, insightsVars, patternsVars, serverVars, pureIn>>

NextFallback == RunGenerateFallbackInsights

SpecFallback == InitFallback /\ [][NextFallback]_vars

(***************************************************************************)
(* The symptom summaries of the two views on pairs of symptom lists that   *)
(* differ in what the summaries leave out.                                 *)
(***************************************************************************)
\* the differences of the second list of a pair from the first
Variations ==
  {"id", "absent added", "absent removed", "absent renamed", "pressure", "icon",
   "windSpeed", "uvIndex", "feelsLike", "all"}

\* an entry with another id
OtherId(e) == [e EXCEPT !.id = @ + MaxSymptoms + 1]

\* an entry with other names marked absent: one more, none, or renamed ones
OtherAbsent(e, how) ==
  CASE how = "absent added" ->
         [e EXCEPT !.symptoms = Append(@, [name |-> "Nausea", present |-> FALSE])]
    [] how = "absent removed" ->
         [e EXCEPT !.symptoms = SelectSeq(@, LAMBDA x : x.present)]
    [] OTHER ->
         [e EXCEPT !.symptoms =
            [k \in 1..Len(@) |->
               IF @[k].present THEN @[k]
               ELSE [name |-> "Other " \o @[k].name, present |-> FALSE]]]

\* an entry with another value of one of the weather fields the summaries
\* do not read; an entry without weather has none of them
OtherWeather(e, field) ==
  IF ~e.weather.has THEN e
  ELSE CASE field = "pressure"  -> [e EXCEPT !.weather.pressure = @ + 5]
         [] field = "icon"      -> [e EXCEPT !.weather.icon = "10n"]
         [] field = "windSpeed" -> [e EXCEPT !.weather.windSpeed = @ + 1]
         [] field = "uvIndex"   -> [e EXCEPT !.weather.uvIndex = @ + 1]
         [] OTHER               -> [e EXCEPT !.weather.feelsLike = @ - 2]

Vary(e, how) ==
  CASE how = "id" -> OtherId(e)
    [] how \in {"absent added", "absent removed", "absent renamed"} ->
         OtherAbsent(e, how)
    [] how \in {"pressure", "icon", "windSpeed", "uvIndex", "feelsLike"} ->
         OtherWeather(e, how)
    [] OTHER ->
         OtherWeather(OtherWeather(OtherWeather(OtherWeather(OtherWeather(
           OtherAbsent(OtherId(e), "absent renamed"),
           "pressure"), "icon"), "windSpeed"), "uvIndex"), "feelsLike")

\* the list with the entries at the positions in where varied
VaryAt(list, where, how) ==
  [j \in 1..Len(list) |-> IF j \in where THEN Vary(list[j], how) ELSE list[j]]

InitSummary ==
  /\ ServerIdle
  /\ symptomTypes = DEFAULT_SYMPTOM_TYPES
  /\ SideIdle
  /\ mainView = "symptoms"
  /\ InsightsUnmounted
  /\ PatternsUnmounted
  /\ \E p \in ProfileIds, count \in {1, 2, MaxSymptoms}, how \in Variations :
       \E where \in {{1}, {count}, 1..count} :
         /\ tz = ProfileZone(p)
         /\ symptoms = ProfileSymptoms(p, count)
         /\ medications = ProfileMedications(p)
         /\ pureIn = [first  |-> symptoms,
                      second |-> VaryAt(symptoms, where, how),
                      how    |-> how]
  /\ pureOut = [ran |-> FALSE, value |-> <<>>]

\* the summary generateInsights builds of each list of the pair
RunSymptomSummary ==
  /\ ~pureOut.ran
  /\ pureOut' = [ran   |-> TRUE,
                 value |-> <<SymptomSummary(pureIn.first, tz),
                             SymptomSummary(pureIn.second, tz)>>]
  /\ UNCHANGED <<trackerVars, mainView, insightsVars, patternsVars, serverVars,
                 pureIn>>

\* the summary generateVisualizations builds of each list of the pair
RunSymptomData ==
  /\ ~pureOut.ran
  /\ \E range \in TimeRanges :
       pureOut' = [ran   |-> TRUE,
                   value |-> <<symptomData(pureIn.first, range, tz),
                               symptomData(pureIn.second, range, tz)>>]
  /\ UNCHANGED <<trackerVars, mainView, insightsVars, patternsVars, serverVars,
                 pureIn>>

NextSummary == RunSymptomSummary \/ RunSymptomData

SpecSummary == InitSummary /\ [][NextSummary]_vars

(***************************************************************************)
(* The tracker's symptom dialog (src/components/symptom-tracker.tsx) with  *)
(* the insights view opened on the list the saves have left.               *)
(***************************************************************************)
\* saves of a day earlier than every saved day
MaxBackfill == 1

\* saves of a day that has an entry
MaxUpdates == 1

\* the days the dialog is opened on: enough for one entry more than the
\* insights view keeps, and one day left to fill in afterwards
FirstDay == Today - RecentLimit - 1

\* the entry the dialog submits for a day
SubmittedEntry(date, severity) ==
  SymptomEntry(date, date, severity, "",
               <<[name |-> "Pain", present |-> TRUE],
                 [name |-> "Fatigue", present |-> FALSE]>>,
               NoWeather)

\* symptoms.findIndex((s) => isSameDay(s.date, entry.date)), 0 for -1
findIndex(list, date) ==
  LET hits == {j \in 1..Len(list) : list[j].date = date}
  IN  IF hits = {} THEN 0 ELSE CHOOSE j \in hits : \A k \in hits : j <= k

\* addOrUpdateSymptom without the search for an entry of the day
addOrUpdateSymptom_AlwaysAppends(list, entry) == Append(list, entry)

\* the list addOrUpdateSymptom hands to setSymptoms
addOrUpdateSymptom(list, entry) ==
  LET existingIndex == findIndex(list, entry.date)
  IN  IF existingIndex > 0
      THEN [list EXCEPT ![existingIndex] = entry]
      ELSE Append(list, entry)

\* the entries saved after an entry of a later day
Backfills(list) == Cardinality({j \in 2..Len(list) : list[j].date < list[j - 1].date})

\* the entries saved over an earlier entry of their day
Updates(list) == Cardinality({j \in 1..Len(list) : list[j].severity = 2})

\* the days the dialog is submitted for: the first two days on an empty
\* list, then the day after the latest, the day before the earliest, or a
\* day that has an entry
SubmittedDays(list) ==
  IF list = <<>> THEN {FirstDay, FirstDay + 1}
  ELSE LET days == {list[j].date : j \in 1..Len(list)}
       IN  {d \in FirstDay..Today :
              \/ d \in days
              \/ \E e \in days : d = e + 1 /\ \A f \in days : f <= e
              \/ \A e \in days : d < e}

InitTracker ==
  /\ tz \in {"utc", "east"}
  /\ symptoms = <<>>
  /\ medications = <<>>
  /\ symptomTypes = DEFAULT_SYMPTOM_TYPES
  /\ SideIdle
  /\ mainView = "symptoms"
  /\ InsightsUnmounted
  /\ PatternsUnmounted
  /\ ServerIdle
  /\ PureIdle

\* the dialog of the calendar is submitted: the entry replaces the entry of
\* its day or goes to the end of the list, and the calendar stays in view
AddOrUpdateSymptom ==
  /\ mainView = "symptoms"
  /\ \E date \in SubmittedDays(symptoms) :
       LET existing == findIndex(symptoms, date) > 0
           saved    == addOrUpdateSymptom(symptoms,
                         SubmittedEntry(date, IF existing THEN 2 ELSE 1))
       IN  /\ Backfills(saved) <= MaxBackfill
           /\ Updates(saved) <= MaxUpdates
           /\ existing => symptoms[findIndex(symptoms, date)].severity = 1
           /\ symptoms' = saved
  /\ mainView' = "symptoms"
  /\ UNCHANGED <<tz, medications, symptomTypes, sideVars, insightsVars,
                 patternsVars, serverVars, pureVars>>

NextTracker == AddOrUpdateSymptom \/ OpenInsights \/ OpenSymptoms

SpecTracker == InitTracker /\ [][NextTracker]_vars

(***************************************************************************)
(* The calendar of the tracker (src/components/symptom-tracker.tsx): the   *)
(* symptom form, the bulk entry dialog and the delete button, on a few     *)
(* days.                                                                   *)
(***************************************************************************)
\* the days of the calendar that are saved and deleted
MaxDays == 3

CalendarDays == (Today - MaxDays + 1)..Today

\* what fetchCurrentWeather resolves to at different times
CurrentWeathers == {Weather(20, 60, 1010, "clear"), Weather(30, 80, 1000, "rain")}

\* the weather of newEntry in handleSubmit: null when the fetch throws
FetchOutcomes == CurrentWeathers \cup {NoWeather}

\* the severity the radio group of the form starts on and is left at
FormSeverities == {1}

\* uuidv4() of addBulkSymptoms and of the form, for an entry of a day
BulkId(day) == day + Today

FormId(day) == day

\* newEntry of handleSubmit
FormEntry(list, date, severity, weather) ==
  LET existingIndex == findIndex(list, date)
  IN  SymptomEntry(IF existingIndex > 0 THEN list[existingIndex].id ELSE FormId(date),
                   date, severity, "",
                   <<[name |-> "Pain", present |-> TRUE],
                     [name |-> "Fatigue", present |-> FALSE]>>,
                   weather)

\* an element of newEntries in addBulkSymptoms
BulkEntry(day, severity) ==
  SymptomEntry(BulkId(day), day, severity, "bulk",
               <<[name |-> "Pain", present |-> FALSE],
                 [name |-> "Fatigue", present |-> TRUE]>>,
               NoWeather)

\* the forEach of addBulkSymptoms over the state updates it queues: a day
\* with an entry in the rendered list sets the state to a copy of the
\* rendered list with that entry replaced, a day without one appends to the
\* state the queue has reached
RECURSIVE addBulkSymptoms(_, _, _, _)
addBulkSymptoms(rendered, state, days, severity) ==
  IF days = <<>> THEN state
  ELSE LET entry         == BulkEntry(days[1], severity)
           existingIndex == findIndex(rendered, entry.date)
       IN  addBulkSymptoms(rendered,
                           IF existingIndex > 0
                           THEN [rendered EXCEPT ![existingIndex] = entry]
                           ELSE Append(state, entry),
                           Tail(days), severity)

\* eachDayOfInterval({ start, end })
eachDayOfInterval(start, end) == [j \in 1..(end - start + 1) |-> start + j - 1]

InitCalendar ==
  /\ tz = "utc"
  /\ symptoms = <<>>
  /\ medications = <<>>
  /\ symptomTypes = DEFAULT_SYMPTOM_TYPES
  /\ SideIdle
  /\ mainView = "symptoms"
  /\ InsightsUnmounted
  /\ PatternsUnmounted
  /\ ServerIdle
  /\ PureIdle

\* the symptom form of a day is submitted: handleSubmit awaits the weather
\* and hands newEntry to addOrUpdateSymptom
SubmitSymptomForm ==
  /\ mainView = "symptoms"
  /\ \E date \in CalendarDays, severity \in FormSeverities, weather \in FetchOutcomes :
       symptoms' = addOrUpdateSymptom(symptoms,
                                      FormEntry(symptoms, date, severity, weather))
  /\ mainView' = "symptoms"
  /\ UNCHANGED <<tz, medications, symptomTypes, sideVars, insightsVars,
                 patternsVars, serverVars, pureVars>>

\* the bulk entry dialog is submitted for the days selected by two clicks
AddBulkSymptoms ==
  /\ mainView = "symptoms"
  /\ \E start \in CalendarDays, end \in CalendarDays :
       /\ start <= end
       /\ symptoms' = addBulkSymptoms(symptoms, symptoms,
                                      eachDayOfInterval(start, end), 3)
  /\ UNCHANGED <<tz, medications, symptomTypes, sideVars, mainView,
                 insightsVars, patternsVars, serverVars, pureVars>>

\* the delete button of a day that has an entry, confirmed
DeleteSymptom ==
  /\ mainView = "symptoms"
  /\ \E day \in CalendarDays :
       /\ findIndex(symptoms, day) > 0
       /\ symptoms' = SelectSeq(symptoms, LAMBDA e : e.date # day)
  /\ UNCHANGED <<tz, medications, symptomTypes, sideVars, mainView,
                 insightsVars, patternsVars, serverVars, pureVars>>

NextCalendar == SubmitSymptomForm \/ AddBulkSymptoms \/ DeleteSymptom

SpecCalendar == InitCalendar /\ [][NextCalendar]_vars

(***************************************************************************)
(* The medication tracker (src/components/medication-tracker.tsx) and the  *)
(* notification timers of src/lib/notifications.ts.                        *)
(***************************************************************************)
\* medications in the list
MaxMedications == 2

\* timeouts pending at once
MaxTimers == 3

\* the times lists the form is submitted with
TimeLists == {<<"08:00">>, <<"12:00">>, <<"08:00", "12:00">>}

\* the id scheduleNotification and cancelNotification are handed:
\* medication.id and time, joined
NotificationKey(id, time) == <<id, time>>

\* setTimeout's return value: an id no pending timeout has
TimeoutId(n) ==
  CHOOSE t \in 1..(Cardinality(n.pending) + 1) :
    /\ \A x \in n.pending : x.timeout # t
    /\ \A u \in 1..(t - 1) : \E x \in n.pending : x.timeout = u

\* scheduleNotification: a timeout is set and its id stored under the key,
\* over an id stored there before
scheduleNotification(n, key) ==
  LET timeoutId == TimeoutId(n)
  IN  [pending |-> n.pending \cup {[timeout |-> timeoutId, key |-> key]},
       stored  |-> {x \in n.stored : x.key # key}
                     \cup {[key |-> key, timeout |-> timeoutId]}]

\* cancelNotification: the timeout whose id is stored under the key is
\* cleared and the item removed
cancelNotification(n, key) ==
  LET found == {x \in n.stored : x.key = key}
  IN  [pending |-> {t \in n.pending : \A x \in found : t.timeout # x.timeout},
       stored  |-> n.stored \ found]

\* times.forEach((time) => scheduleNotification(...)) and the same of
\* cancelNotification
RECURSIVE scheduleEach(_, _, _)
scheduleEach(n, id, times) ==
  IF times = <<>> THEN n
  ELSE scheduleEach(scheduleNotification(n, NotificationKey(id, times[1])), id,
                    Tail(times))

RECURSIVE cancelEach(_, _, _)
cancelEach(n, id, times) ==
  IF times = <<>> THEN n
  ELSE cancelEach(cancelNotification(n, NotificationKey(id, times[1])), id,
                  Tail(times))

\* the notifications after toggleReminder of a medication
toggleNotifications(n, medication) ==
  IF ~medication.reminderEnabled
  THEN scheduleEach(n, medication.id, medication.times)
  ELSE cancelEach(n, medication.id, medication.times)

\* the notifications after handleDelete of a medication
deleteNotifications(n, medication) ==
  IF medication.reminderEnabled
  THEN cancelEach(n, medication.id, medication.times)
  ELSE n

\* addOrUpdateMedication of the tracker
addOrUpdateMedication(list, medication) ==
  LET hits == {j \in 1..Len(list) : list[j].id = medication.id}
  IN  IF hits # {}
      THEN [list EXCEPT ![CHOOSE j \in hits : \A k \in hits : j <= k] = medication]
      ELSE Append(list, medication)

InitMedication ==
  /\ tz = "utc"
  /\ symptoms = <<>>
  /\ medications = <<>>
  /\ symptomTypes = DEFAULT_SYMPTOM_TYPES
  /\ SideIdle
  /\ mainView = "medications"
  /\ InsightsUnmounted
  /\ PatternsUnmounted
  /\ ServerIdle
  /\ PureIdle

\* MedicationForm.handleSubmit, for a new medication (existing = 0) or the
\* one being edited, and handleAddOrUpdate: the list is updated and no
\* notification is scheduled or cancelled
SubmitMedicationForm ==
  /\ mainView = "medications"
  /\ \E existing \in 0..Len(medications), times \in TimeLists,
        reminderEnabled \in BOOLEAN :
       LET used == {medications[j].id : j \in 1..Len(medications)}
                     \cup {t.key[1] : t \in notifications.pending}
           id == IF existing > 0 THEN medications[existing].id
                 ELSE CHOOSE i \in 1..(MaxMedications + 1) :
                        i \notin used /\ \A u \in 1..(i - 1) : u \in used
       IN  /\ id <= MaxMedications
           /\ medications' =
                addOrUpdateMedication(medications,
                  [MedicationEntry(id, "med", Today, FALSE, 0)
                     EXCEPT !.times = times, !.reminderEnabled = reminderEnabled])
  /\ UNCHANGED <<tz, symptoms, symptomTypes, sideVars, mainView, insightsVars,
                 patternsVars, serverVars, pureVars>>

\* the bell button of a medication
ToggleReminder ==
  /\ mainView = "medications"
  /\ \E k \in 1..Len(medications) :
       /\ notifications' = toggleNotifications(notifications, medications[k])
       /\ Cardinality(notifications'.pending) <= MaxTimers
       /\ medications' =
            addOrUpdateMedication(medications,
              [medications[k] EXCEPT !.reminderEnabled = ~@])
  /\ UNCHANGED <<tz, symptoms, symptomTypes, emergencyContacts, weatherJob,
                 mainView, insightsVars, patternsVars, serverVars, pureVars>>

\* the delete button of a medication: handleDelete, then deleteMedication
DeleteMedication ==
  /\ mainView = "medications"
  /\ \E k \in 1..Len(medications) :
       /\ notifications' = deleteNotifications(notifications, medications[k])
       /\ medications' = SelectSeq(medications, LAMBDA m : m.id # medications[k].id)
  /\ UNCHANGED <<tz, symptoms, symptomTypes, emergencyContacts, weatherJob,
                 mainView, insightsVars, patternsVars, serverVars, pureVars>>

\* a timeout runs out: the notification is shown and scheduleNotification
\* is called again for the next day
TimerFires ==
  /\ \E t \in notifications.pending :
       notifications' =
         scheduleNotification([notifications EXCEPT !.pending = @ \ {t}], t.key)
  /\ UNCHANGED <<tz, symptoms, medications, symptomTypes, emergencyContacts,
                 weatherJob, mainView, insightsVars, patternsVars, serverVars,
                 pureVars>>

NextMedication ==
  SubmitMedicationForm \/ ToggleReminder \/ DeleteMedication \/ TimerFires

SpecMedication == InitMedication /\ [][NextMedication]_vars

(***************************************************************************)
(* The emergency contacts (src/components/emergency-contacts.tsx) and the  *)
(* tracker's contact list.                                                 *)
(***************************************************************************)
\* contacts in the list
MaxContacts == 3

\* the names the contact form is submitted with
ContactNames == {"Ann", "Bob"}

\* an EmergencyContact, by the fields the contact operations read
EmergencyContact(id, name, isPrimary) ==
  [id |-> id, name |-> name, isPrimary |-> isPrimary]

\* addOrUpdateContact of the tracker, on the list of the render that
\* created it
addOrUpdateContact(list, contact) ==
  LET hits == {j \in 1..Len(list) : list[j].id = contact.id}
  IN  IF hits # {}
      THEN [list EXCEPT ![CHOOSE j \in hits : \A k \in hits : j <= k] = contact]
      ELSE Append(list, contact)

\* setPrimaryContact(id): contacts.forEach from position k on; every
\* onUpdateContact is the addOrUpdateContact of the render the view was
\* drawn in and sets the list to an update of that render's list
RECURSIVE setPrimaryContact(_, _, _, _)
setPrimaryContact(contacts, state, k, id) ==
  IF k > Len(contacts) THEN state
  ELSE LET contact == contacts[k]
       IN  IF contact.id = id /\ ~contact.isPrimary
           THEN setPrimaryContact(contacts,
                  addOrUpdateContact(contacts, [contact EXCEPT !.isPrimary = TRUE]),
                  k + 1, id)
           ELSE IF contact.id # id /\ contact.isPrimary
           THEN setPrimaryContact(contacts,
                  addOrUpdateContact(contacts, [contact EXCEPT !.isPrimary = FALSE]),
                  k + 1, id)
           ELSE setPrimaryContact(contacts, state, k + 1, id)

InitContacts ==
  /\ tz = "utc"
  /\ symptoms = <<>>
  /\ medications = <<>>
  /\ symptomTypes = DEFAULT_SYMPTOM_TYPES
  /\ SideIdle
  /\ mainView = "emergency"
  /\ InsightsUnmounted
  /\ PatternsUnmounted
  /\ ServerIdle
  /\ PureIdle

\* ContactForm.handleSubmit, for a new contact (existing = 0) or the one
\* being edited; the primary switch is disabled on a primary contact
SubmitContactForm ==
  /\ mainView = "emergency"
  /\ \E existing \in 0..Len(emergencyContacts), name \in ContactNames,
        isPrimary \in BOOLEAN :
       LET used == {emergencyContacts[j].id : j \in 1..Len(emergencyContacts)}
           id == IF existing > 0 THEN emergencyContacts[existing].id
                 ELSE CHOOSE i \in 1..(MaxContacts + 1) :
                        i \notin used /\ \A u \in 1..(i - 1) : u \in used
       IN  /\ id <= MaxContacts
           /\ existing > 0 /\ emergencyContacts[existing].isPrimary => isPrimary
           /\ emergencyContacts' =
                addOrUpdateContact(emergencyContacts,
                                   EmergencyContact(id, name, isPrimary))
  /\ UNCHANGED <<tz, symptoms, medications, symptomTypes, notifications,
                 weatherJob, mainView, insightsVars, patternsVars, serverVars,
                 pureVars>>

\* the delete button of a contact: deleteContact
DeleteContact ==
  /\ mainView = "emergency"
  /\ \E k \in 1..Len(emergencyContacts) :
       emergencyContacts' =
         SelectSeq(emergencyContacts, LAMBDA c : c.id # emergencyContacts[k].id)
  /\ UNCHANGED <<tz, symptoms, medications, symptomTypes, notifications,
                 weatherJob, mainView, insightsVars, patternsVars, serverVars,
                 pureVars>>

\* the star button of the contact id, enabled on a contact that is not
\* primary
SetPrimaryContact(id) ==
  /\ mainView = "emergency"
  /\ \E k \in 1..Len(emergencyContacts) :
       emergencyContacts[k].id = id /\ ~emergencyContacts[k].isPrimary
  /\ emergencyContacts' =
       setPrimaryContact(emergencyContacts, emergencyContacts, 1, id)
  /\ UNCHANGED <<tz, symptoms, medications, symptomTypes, notifications,
                 weatherJob, mainView, insightsVars, patternsVars, serverVars,
                 pureVars>>

NextContacts ==
  \/ SubmitContactForm
  \/ DeleteContact
  \/ \E id \in 1..MaxContacts : SetPrimaryContact(id)

SpecContacts == InitContacts /\ [][NextContacts]_vars

(***************************************************************************)
(* The weather view (WeatherDisplay of src/lib/notifications.ts) and its   *)
(* update of the entries that carry no weather.                            *)
(***************************************************************************)
\* updateHistoricalWeather calls in progress at once
MaxJobs == 1

\* what fetchHistoricalWeather resolves to
HistoricalWeathers == {Weather(24, 65, 1015, "sunny")}

\* the lists the weather view is opened on: at most one entry a day, each
\* with or without a snapshot, in any order
WeatherLists ==
  LET choices == CalendarDays \X {NoWeather, Weather(20, 60, 1010, "clear")}
  IN  UNION {{[j \in 1..n |-> FormEntry(<<>>, f[j][1], 1, f[j][2])] :
                f \in {g \in [1..n -> choices] :
                         \A a \in 1..n, b \in 1..n : g[a][1] = g[b][1] => a = b}} :
             n \in 0..MaxDays}

InitWeather ==
  /\ tz = "utc"
  /\ symptoms \in WeatherLists
  /\ medications = <<>>
  /\ symptomTypes = DEFAULT_SYMPTOM_TYPES
  /\ SideIdle
  /\ mainView = "weather"
  /\ InsightsUnmounted
  /\ PatternsUnmounted
  /\ ServerIdle
  /\ PureIdle

\* the weather view is opened: a new WeatherDisplay, not loading
OpenWeather ==
  /\ mainView # "weather"
  /\ mainView' = "weather"
  /\ InsightsReset
  /\ PatternsReset
  /\ weatherJob' = [weatherJob EXCEPT !.isLoading = FALSE]
  /\ UNCHANGED <<tz, symptoms, medications, symptomTypes, emergencyContacts,
                 notifications, serverVars, pureVars>>

\* the update button: updateHistoricalWeather up to its first await, with
\* the symptoms and the onUpdateSymptom of the render it was created in
UpdateHistoricalWeather ==
  /\ mainView = "weather"
  /\ ~weatherJob.isLoading
  /\ Len(weatherJob.jobs) < MaxJobs
  /\ LET symptomsWithoutWeather == SelectSeq(symptoms, LAMBDA e : ~e.weather.has)
     IN  IF symptomsWithoutWeather = <<>>
         THEN UNCHANGED weatherJob
         ELSE weatherJob' =
                [isLoading |-> TRUE,
                 jobs |-> Append(weatherJob.jobs,
                                 [rendered |-> symptoms,
                                  todo |-> symptomsWithoutWeather,
                                  mounted |-> TRUE])]
  /\ UNCHANGED <<tz, symptoms, medications, symptomTypes, emergencyContacts,
                 notifications, mainView, insightsVars, patternsVars,
                 serverVars, pureVars>>

\* the fetch the k-th call awaits resolves: onUpdateSymptom, the
\* addOrUpdateSymptom of the render the call started in, saves the entry
\* with the snapshot and shows the calendar, which unmounts the weather
\* view; the call goes on to its next entry or ends
HistoricalWeatherResolves(k) ==
  /\ k \in 1..Len(weatherJob.jobs)
  /\ LET job == weatherJob.jobs[k]
     IN  /\ \E historicalData \in HistoricalWeathers :
              symptoms' = addOrUpdateSymptom(job.rendered,
                            [job.todo[1] EXCEPT !.weather = historicalData])
         /\ weatherJob' =
              [isLoading |-> FALSE,
               jobs |-> LET left == IF Len(job.todo) = 1
                                    THEN RemoveAt(weatherJob.jobs, k)
                                    ELSE [weatherJob.jobs EXCEPT ![k].todo = Tail(@)]
                        IN  [j \in 1..Len(left) |-> [left[j] EXCEPT !.mounted = FALSE]]]
  /\ mainView' = "symptoms"
  /\ UNCHANGED <<tz, medications, symptomTypes, emergencyContacts,
                 notifications, insightsVars, patternsVars, serverVars, pureVars>>

\* the fetch the k-th call awaits rejects: the catch logs it and the
\* finally clears isLoading of the view the call started in
HistoricalWeatherRejects(k) ==
  /\ k \in 1..Len(weatherJob.jobs)
  /\ weatherJob' =
       [isLoading |-> IF weatherJob.jobs[k].mounted THEN FALSE
                      ELSE weatherJob.isLoading,
        jobs |-> RemoveAt(weatherJob.jobs, k)]
  /\ UNCHANGED <<tz, symptoms, medications, symptomTypes, emergencyContacts,
                 notifications, mainView, insightsVars, patternsVars,
                 serverVars, pureVars>>

NextWeather ==
  \/ OpenWeather
  \/ UpdateHistoricalWeather
  \/ \E k \in 1..MaxJobs : HistoricalWeatherResolves(k)
  \/ \E k \in 1..MaxJobs : HistoricalWeatherRejects(k)

SpecWeather == InitWeather /\ [][NextWeather]_vars

Next ==
  \/ OpenInsights
  \/ ClickGenerateInsights
  \/ ResolveInsights
  \/ RejectInsights
  \/ OpenPatterns
  \/ SetTimeRange
  \/ ClickGeneratePatterns
  \/ ResolvePatterns
  \/ OpenSymptoms

Spec == Init /\ [][Next]_vars

\* the views under the hypothesis that a generation call in flight settles:
\* the awaited promise of a mounted view resolves or rejects
SpecLive ==
  /\ Init
  /\ [][Next]_vars
  /\ WF_vars(RejectInsights \/ ResolveInsights)
  /\ WF_vars(RejectPatterns \/ ResolvePatterns)

(***************************************************************************)
(* Properties of the insights and patterns views (Spec) and of the server  *)
(* actions (SpecExtract).                                                  *)
(***************************************************************************)

\* C1: every generate action of the insights view that starts with a
\* non-empty symptom list, whatever the generation call returns and whether
\* or not it throws, ends with the view holding between 1 and 5 insights.
C1_EndsWithOneToFiveInsights ==
  (/\ mainView = "insights"
   /\ Len(symptoms) > 0
   /\ iDone.path \in {"failure", "parsed", "fallback", "rejected"})
    => Len(insights) \in 1..5

\* C2: when no strategy of extractJSON recovers parseable JSON from the
\* generated text, the server action reports failure, generateInsights
\* returns without an exception, and the insights view ends holding the
\* insights of generateFallbackInsights.
C2_ExtractionFailureFallsBack ==
  (/\ mainView = "insights"
   /\ iDone.path \in {"failure", "parsed", "fallback"}
   /\ ~iDone.gen.threw
   /\ ~extractJSON(iDone.gen.text).ok)
    => LET fallback == generateFallbackInsights(iDone.summary, iDone.meds)
       IN  /\ ~generateAIInsights(iDone.gen).success
           /\ ~iLoading
           /\ insights = [j \in 1..Len(fallback) |-> fallback[j].insight]

\* C3: when the generation call rejects or throws, the insights view ends
\* holding the insights of generateFallbackInsights and the patterns view
\* ends holding its fallback record, not only an error message.
C3_GenerationThrowFallsBack ==
  /\ (/\ mainView = "insights"
      /\ iDone.path \in {"failure", "rejected"}
      /\ iDone.gen.threw)
       => LET fallback == generateFallbackInsights(iDone.summary, iDone.meds)
          IN  /\ insights # <<>>
              /\ insights = [j \in 1..Len(fallback) |-> fallback[j].insight]
  /\ (/\ mainView = "patterns"
      /\ pDone.path = "rejected")
       => patternData = fallbackData(symptomData(symptoms, pDone.range, tz), tz)

\* C4: after a generate action that ended in a recoverable error (the
\* generation call failed, extraction failed, or the parsed value was
\* unusable) the view renders the locally computed results, an insight list
\* or a pattern, and never only the error alert or the empty placeholder.
C4_RecoverableErrorRendersResults ==
  /\ (mainView = "insights" /\ iDone.path \in {"failure", "fallback", "rejected"})
       => RenderInsights = "insight list"
  /\ (mainView = "patterns" /\ pDone.path \in {"fallback", "rejected"})
       => RenderPatterns = "tabs"

\* C5: extractJSON evaluates direct parse, greedy bracket match, fenced
\* block and bracket scan in that order, returns the candidate of the first
\* strategy whose candidate parses and evaluates no strategy after it; on a
\* text that is valid JSON only the direct parse is evaluated.
C5_OrderedCascade ==
  extraction # Thrown(<<>>) =>
    LET t       == genOutcome.text
        order   == <<"direct", "greedy", "fence", "scan">>
        cand(k) == CASE k = 1 -> [found |-> TRUE, s |-> Trim(t)]
                     [] k = 2 -> JsonArrayMatch(t)
                     [] k = 3 -> CodeBlockMatch(t)
                     [] OTHER -> BracketScan(t)
        wins    == {k \in 1..4 : cand(k).found /\ Parses(cand(k).s)}
    IN  /\ IF wins = {}
           THEN extraction = Thrown(order)
           ELSE extraction = Returned(cand(MinOf(wins)).s, SubSeq(order, 1, MinOf(wins)))
        /\ Parses(Trim(t)) => extraction.tried = <<"direct">>

\* a response whose greedy bracket candidate does not parse and whose fenced
\* block does: three strategies evaluated, the fourth not
C5_Witness ==
  /\ extraction.ok
  /\ extraction.tried = <<"direct", "greedy", "fence">>
  /\ JsonArrayMatch(genOutcome.text).found

C7_ReturnsAnArray ==
  extraction.ok =>
    /\ JSONParse(extraction.out).ok
    /\ JSONParse(extraction.out).val.t = "arr"

\* C8: a response that is a valid JSON array with zero elements is a
\* success: extractJSON returns the empty array, and neither the insights
\* view nor the patterns view falls back or sets an error because of it.
C8_EmptyArrayIsSuccess ==
  LET empty == GenText(<<"[", "]">>)
  IN  /\ extractJSON(empty.text) = Returned(<<"[", "]">>, <<"direct">>)
      /\ (/\ mainView = "insights"
          /\ iDone.gen = empty
          /\ iDone.path \in {"failure", "parsed", "fallback"})
           => /\ iDone.path = "parsed"
              /\ iError = NoError
              /\ insights = <<>>
      /\ (/\ mainView = "patterns"
          /\ pDone.gen = empty
          /\ pDone.path \in {"parsed", "fallback"})
           => /\ pDone.path = "parsed"
              /\ patternData = Arr(<<>>)

\* C9: for a response made of leading prose, a fence of three backticks
\* (optionally labelled json) around a valid JSON array, and trailing prose,
\* extractJSON returns a text that parses to exactly the enclosed array.
C9_FencedArrayIsRecovered ==
  \A c \in FencedCases :
    (genOutcome = GenText(c.text) /\ extraction # Thrown(<<>>)) =>
      /\ extraction.ok
      /\ JSONParse(extraction.out).ok
      /\ JSONParse(extraction.out).val = c.value

\* C10: in the insights view every element of a parsed response array that
\* has no confidence key is shown with confidence 70; the element is not
\* rejected and the other elements of the array are unaffected.
C10_MissingConfidenceShownAs70 ==
  LET result == generateAIInsights(iDone.gen)
      parsed == JSONParse(result.data)
  IN  (/\ mainView = "insights"
       /\ iDone.path \in {"parsed", "fallback"}
       /\ result.success
       /\ parsed.ok
       /\ parsed.val.t = "arr")
        => /\ iDone.path = "parsed"
           /\ Len(insights) = Len(parsed.val.kids)
           /\ insights = insightList(parsed.val)
           /\ \A j \in 1..Len(parsed.val.kids) :
                ~Has(parsed.val.kids[j], CONFIDENCE) => ShownConfidence(j) = Num(70)

\* C11: generateFallbackInsights called with an empty symptom summary list
\* returns an empty insight list and does not throw.
C11_EmptySummaryGivesEmptyList ==
  (pureOut.ran /\ pureIn.summary = <<>>) => pureOut.value = <<>>

\* C12: the insights view issues no generation call while fewer than 5
\* symptom entries exist, and the patterns view issues none while fewer than
\* 10 exist in total or inside the selected time range; the view then shows
\* only the insufficient-data message and ends with isLoading false.
C12_GatesHold ==
  [][/\ Len(iPending') > Len(iPending) => Len(symptoms) >= 5
     /\ Len(pPending') > Len(pPending) =>
          /\ Len(symptoms) >= 10
          /\ Len(symptomData(symptoms, timeRange', tz)) >= 10
     /\ (mainView' = "insights" /\ Len(symptoms') < 5) =>
          /\ iPending' = <<>>
          /\ ~iLoading'
          /\ insights' = <<>>
          /\ RenderInsights' = "insufficient data"
     /\ (mainView' = "patterns" /\ Len(symptoms') < 10) =>
          /\ pPending' = <<>>
          /\ ~pLoading'
          /\ patternData' = Arr(<<>>)
          /\ RenderPatterns' = "insufficient data"
     /\ (/\ OpenPatterns \/ SetTimeRange \/ ClickGeneratePatterns
         /\ Len(symptoms) >= 10
         /\ Len(symptomData(symptoms, timeRange', tz)) < 10) =>
          /\ pPending' = pPending
          /\ ~pLoading'
          /\ pError' = "Not enough data in the selected time range."
          /\ RenderPatterns' = "alert"
          /\ UNCHANGED <<patternData, activePattern>>]_vars

\* the patterns view holds 10 entries, fewer than 10 of them inside the
\* selected range, and its generate action has returned at the range gate
C12_Witness ==
  /\ mainView = "patterns"
  /\ Len(symptoms) >= 10
  /\ Len(symptomData(symptoms, timeRange, tz)) < 10
  /\ pDone.path = "range"
  /\ pPending = <<>>

\* C13: at no time are two generation requests of the same view in flight:
\* while a request is pending, neither the Generate button, nor a change of
\* the time range, nor the mount effect starts a second one.
C13_OneRequestInFlight ==
  /\ Len(iPending) <= 1
  /\ Len(pPending) <= 1

\* C14: in the patterns view a response whose request was issued under a
\* time range other than the current one is discarded: patternData,
\* activePattern and error are written only from a response whose request
\* was issued under the current time range.
C14_StaleResponseDiscarded ==
  (mainView = "patterns" /\ pDone.path \in {"parsed", "fallback", "rejected"})
    => pDone.range = timeRange

\* C15: in each view isLoading is true in every state in which a generation
\* request of that view is in flight, from the start of the generate action
\* until the response or failure of that request has been handled.
C15_LoadingWhileInFlight ==
  /\ iPending # <<>> => iLoading
  /\ pPending # <<>> => pLoading

\* C16: every generate action of either view, on every outcome (gate, await,
\* parsed, failure, fallback, rejection), leaves the symptom list, the
\* medication list and the symptom-type list as they were; a step taken
\* inside one view changes nothing of the other view
C16_GenerateLeavesTrackerDataAlone ==
  [][/\ mainView' \in {"insights", "patterns"} =>
          UNCHANGED <<symptoms, medications, symptomTypes>>
     /\ (mainView = "insights" /\ mainView' = "insights") =>
          UNCHANGED patternsVars
     /\ (mainView = "patterns" /\ mainView' = "patterns") =>
          UNCHANGED insightsVars]_vars

\* a generate action of the insights view has run to its fallback on a
\* tracker with entries and medications
C16_Witness ==
  /\ mainView = "insights"
  /\ iDone.path = "fallback"
  /\ Len(symptoms) >= 5
  /\ Len(medications) >= 1

\* C17: the symptom summary of either view is the same for two symptom lists
\* that differ only in entry ids, in symptom names marked absent, or in
\* weather pressure, icon, wind speed, UV index or feels-like temperature
C17_SummaryIgnoresUnusedFields ==
  pureOut.ran => pureOut.value[1] = pureOut.value[2]

\* a summary of entries with weather was built of two lists that differ in
\* every one of these ways
C17_Witness ==
  /\ pureOut.ran
  /\ pureIn.how = "all"
  /\ pureOut.value[1] # <<>>
  /\ \E j \in 1..Len(pureIn.first) :
       /\ pureIn.first[j].id # pureIn.second[j].id
       /\ pureIn.first[j].symptoms # pureIn.second[j].symptoms
       /\ pureIn.first[j].weather.has
       /\ pureIn.first[j].weather.pressure # pureIn.second[j].weather.pressure
       /\ pureIn.first[j].weather.icon # pureIn.second[j].weather.icon
       /\ pureIn.first[j].weather.windSpeed # pureIn.second[j].weather.windSpeed
       /\ pureIn.first[j].weather.uvIndex # pureIn.second[j].weather.uvIndex
       /\ pureIn.first[j].weather.feelsLike # pureIn.second[j].weather.feelsLike

\* C18: the insights view passes at most 30 symptom summaries to the
\* generation call, and no entry it leaves out has a later calendar date
\* than an entry it passes, whatever the order the entries were saved in
C18_MostRecentThirty ==
  (mainView = "insights" /\ iPending # <<>>) =>
    LET sent  == iPending[1].symptomSummary
        dates == {sent[j].date : j \in 1..Len(sent)}
    IN  /\ Len(sent) <= 30
        /\ \A k \in 1..Len(symptoms) :
             ISODate(symptoms[k].date, tz) \notin dates =>
               \A d \in dates : ISODate(symptoms[k].date, tz) <= d

\* C19: on a summary that is not empty the first fallback insight names the
\* number of entries and the mean severity to one decimal (a tenth nearest to
\* the mean), and it advises to discuss treatment adjustments exactly when
\* the mean is above 2, a mean of 2 being reassured; five entries whose
\* severities sum to 12 are told 2.4 and the treatment advice
C19_SeverityInsight ==
  (pureOut.ran /\ pureIn.summary # <<>>) =>
    LET count  == Len(pureIn.summary)
        sum    == SumSeverity(pureIn.summary)
        text   == pureOut.value[1].insight
        tenths == text.kids[2].n
        off    == 10 * sum - tenths * count
    IN  /\ text.t = "tpl"
        /\ text.s[1] \in {"severity: discuss treatment adjustments",
                          "severity: relatively well-managed"}
        /\ text.kids[1] = Num(count)
        /\ text.kids[2] = Num(tenths)
        /\ 2 * off <= count /\ -2 * off <= count
        /\ text.s[1] = "severity: discuss treatment adjustments" <=> sum > 2 * count
        /\ (count = 5 /\ sum = 12) =>
             tenths = 24 /\ text.s[1] = "severity: discuss treatment adjustments"

\* the fallback has run on five entries whose severities sum to 12
C19_Witness ==
  /\ pureOut.ran
  /\ Len(pureIn.summary) = 5
  /\ SumSeverity(pureIn.summary) = 12
  /\ pureOut.value[1].insight.kids[2] = Num(24)

\* C20: the fallback list is, in this order, the severity insight (80) when
\* there are entries, the most-frequent-symptoms insight (75) when an entry
\* names a symptom, the medication insight (70) when there are medications,
\* the weather insight (65) when more than five entries have weather, and
\* the generic encouragement (90): the ones whose condition holds and no
\* other, each with its confidence; it has at most five entries and the
\* generic encouragement is the last of them
C20_FallbackList ==
  pureOut.ran =>
    LET summary == pureIn.summary
        value   == pureOut.value
        kindOf(item) ==
          CASE item.insight.s[1] \in {"severity: discuss treatment adjustments",
                                      "severity: relatively well-managed"} -> "severity"
            [] item.insight.s[1] = "most frequently reported symptoms" -> "symptoms"
            [] item.insight.s[1] \in {"tracking medication", "tracking medications"}
                 -> "medication"
            [] item.insight.s[1] = "weather data" -> "weather"
            [] item.insight.s[1] = "continue logging" -> "generic"
            [] OTHER -> "none"
        fixed(kind) ==
          CASE kind = "severity" -> 80 [] kind = "symptoms" -> 75
            [] kind = "medication" -> 70 [] kind = "weather" -> 65 [] OTHER -> 90
        holds(kind) ==
          CASE kind = "severity" -> Len(summary) > 0
            [] kind = "symptoms" ->
                 \E j \in 1..Len(summary) : summary[j].symptoms # <<>>
            [] kind = "medication" -> Len(pureIn.meds) > 0
            [] kind = "weather" ->
                 Cardinality({j \in 1..Len(summary) : summary[j].weather.has}) > 5
            [] OTHER -> TRUE
        expected ==
          SelectSeq(<<"severity", "symptoms", "medication", "weather", "generic">>,
                    holds)
    IN  /\ Len(value) = Len(expected)
        /\ \A j \in 1..Len(value) :
             /\ kindOf(value[j]) = expected[j]
             /\ value[j].confidence = Num(fixed(expected[j]))
        /\ Len(value) <= 5
        /\ kindOf(value[Len(value)]) = "generic"

\* the fallback has run with every condition holding: all five insights
C20_Witness ==
  /\ pureOut.ran
  /\ Len(pureOut.value) = 5
  /\ Len(pureIn.meds) > 0
  /\ Cardinality({j \in 1..Len(pureIn.summary) : pureIn.summary[j].weather.has}) > 5

\* C21: the weekly data of the patterns fallback holds, for every weekday on
\* which the summary has entries, exactly one bucket of that weekday, whose
\* count is the number of those entries and whose severity is their mean, and
\* no bucket of a weekday without entries
C21_OneBucketPerWeekday ==
  (mainView = "patterns" /\ pDone.path = "fallback") =>
    LET data    == symptomData(symptoms, pDone.range, tz)
        buckets == Get(patternData.kids[1], DATA).kids
    IN  \A d \in 0..6 :
          LET on   == {j \in 1..Len(data) : data[j].day = d}
              of   == {b \in 1..Len(buckets) :
                         Get(buckets[b], DAY) = Str(<<DayName(d)>>)}
              sum  == SumSeverity([j \in 1..Len(data) |->
                         IF j \in on THEN data[j] ELSE [severity |-> 0]])
          IN  IF on = {} THEN of = {}
              ELSE /\ Cardinality(of) = 1
                   /\ \A b \in of :
                        /\ Get(buckets[b], COUNT) = Num(Cardinality(on))
                        /\ Numerator(Get(buckets[b], SEVERITY)) * Cardinality(on)
                             = sum * Denominator(Get(buckets[b], SEVERITY))

\* C22: when the response of the patterns view does not parse, or parses to
\* something the view cannot read a pattern of (no array, an empty array, a
\* null element), patternData is one record of type weekly, chart kind bar,
\* confidence 60 and two insight strings, activePattern is weekly and the
\* simplified-visualization message is set
C22_FallbackReplacesPatternData ==
  LET parsed == JSONParse(PatternJsonText(pDone.gen.text))
      unread == \/ ~parsed.ok
                \/ parsed.val.t # "arr"
                \/ parsed.val.kids = <<>>
                \/ \E j \in 1..Len(parsed.val.kids) : parsed.val.kids[j].t = "null"
  IN  (/\ mainView = "patterns"
       /\ pDone.path \in {"parsed", "fallback"}
       /\ unread)
      => /\ Len(patternData.kids) = 1
         /\ Get(patternData.kids[1], TYPE) = Str(WEEKLY)
         /\ Get(patternData.kids[1], CHART_TYPE) = Str(BAR)
         /\ Get(patternData.kids[1], CONFIDENCE) = Num(60)
         /\ Len(Get(patternData.kids[1], INSIGHTS).kids) = 2
         /\ \A j \in 1..2 : Get(patternData.kids[1], INSIGHTS).kids[j].t = "str"
         /\ activePattern = Str(WEEKLY)
         /\ pError = "AI response could not be processed correctly. Showing simplified visualization instead."

\* on a tracker with enough entries a response that parses, to an empty
\* array, has come in and the view holds one record
C22_Witness ==
  /\ mainView = "patterns"
  /\ pDone.path = "fallback"
  /\ pDone.gen.text = Stringify(Arr(<<>>))
  /\ Len(patternData.kids) = 1
  /\ pPending = <<>>
  /\ Len(symptoms) = MaxSymptoms

C24_SnapshotIsKept ==
  [][\A j \in 1..Len(symptoms), k \in 1..Len(symptoms') :
       (symptoms[j].weather.has /\ symptoms'[k].date = symptoms[j].date) =>
         symptoms'[k].weather = symptoms[j].weather]_vars

\* C25: a notification timer is pending for a medication and a time only
\* while the medication is in the list, has reminders enabled and lists
\* that time
C25_TimersFollowMedications ==
  \A t \in notifications.pending :
    \E k \in 1..Len(medications) :
      /\ medications[k].id = t.key[1]
      /\ medications[k].reminderEnabled
      /\ \E j \in 1..Len(medications[k].times) : medications[k].times[j] = t.key[2]

\* C26: after setPrimaryContact(id) on a list that contains the contact
\* id, that contact is primary and every other contact is not
C26_OnlyTheChosenIsPrimary ==
  [][\A id \in 1..MaxContacts :
       SetPrimaryContact(id) =>
         \A j \in 1..Len(emergencyContacts') :
           emergencyContacts'[j].isPrimary <=> emergencyContacts'[j].id = id]_vars

\* C27: after a bulk save over the selected days, every selected day has an
\* entry with the severity, symptoms and notes of the dialog, and the
\* entries of the days that were not selected are as they were
C27_BulkSaveCoversSelection ==
  [][\A start \in CalendarDays, end \in CalendarDays :
       (/\ mainView = "symptoms"
        /\ start <= end
        /\ symptoms' = addBulkSymptoms(symptoms, symptoms,
                                       eachDayOfInterval(start, end), 3)) =>
         /\ \A day \in start..end :
              \E k \in 1..Len(symptoms') :
                /\ symptoms'[k].date = day
                /\ symptoms'[k].severity = BulkEntry(day, 3).severity
                /\ symptoms'[k].symptoms = BulkEntry(day, 3).symptoms
                /\ symptoms'[k].notes = BulkEntry(day, 3).notes
         /\ \A j \in 1..Len(symptoms) :
              symptoms[j].date \notin start..end =>
                \E k \in 1..Len(symptoms') : symptoms'[k] = symptoms[j]
         /\ \A k \in 1..Len(symptoms') :
              symptoms'[k].date \notin start..end =>
                \E j \in 1..Len(symptoms) : symptoms[j] = symptoms'[k]]_vars

\* C28: when updateHistoricalWeather ends without an error, every entry of
\* the list it started on is still in the list and carries a snapshot, the
\* one it had or the one fetched for it
C28_EveryEntryGetsASnapshot ==
  [][\A k \in 1..Len(weatherJob.jobs) :
       (HistoricalWeatherResolves(k) /\ Len(weatherJob.jobs[k].todo) = 1) =>
         LET job == weatherJob.jobs[k]
         IN  \A j \in 1..Len(job.rendered) :
               \E i \in 1..Len(symptoms') :
                 /\ symptoms'[i].weather.has
                 /\ [symptoms'[i] EXCEPT !.weather = job.rendered[j].weather]
                      = job.rendered[j]]_vars

\* C29: when the generation calls settle, isLoading of the insights view
\* and of the patterns view does not stay true: whenever a view is loading
\* it is later not loading
C29_LoadingEnds ==
  /\ iLoading ~> ~iLoading
  /\ pLoading ~> ~pLoading

\* the call of the insights view has rejected: the catch and the finally
\* have run, nothing is in flight and the view is not loading
C29_Witness ==
  /\ mainView = "insights"
  /\ iDone.path = "rejected"
  /\ ~iLoading
  /\ iPending = <<>>

\* C30: in the insights view an element of the parsed response array that
\* carries a confidence c in 0..100 is shown with exactly c, c = 0
\* included
C30_ConfidenceShownAsGiven ==
  LET result == generateAIInsights(iDone.gen)
      parsed == JSONParse(result.data)
  IN  (/\ mainView = "insights"
       /\ iDone.path = "parsed"
       /\ result.success
       /\ parsed.ok
       /\ parsed.val.t = "arr")
        => \A j \in 1..Len(parsed.val.kids) :
             LET c == Get(parsed.val.kids[j], CONFIDENCE)
             IN  (Has(parsed.val.kids[j], CONFIDENCE) /\ c.t = "num" /\ c.n \in 0..100)
                   => ShownConfidence(j) = c

====
